---- MODULE Spec2Model ----
(***************************************************************************)
(* A model of the Vulkan rendering core of poc-engine                      *)
(* (src/src/vulkan_renderer.c): one rendering context, its swapchain and   *)
(* frame loop, the GPU queue it submits to, and its renderables.           *)
(*                                                                         *)
(* The program state is kept in records that mirror the C structures:      *)
(*   ctx     struct poc_context (the fields the frame loop uses)           *)
(*   robj    the heap of struct poc_renderable objects, by address         *)
(*   dev     what lives behind the Vulkan API: live objects, the graphics  *)
(*           queue with its pending submissions, fence states, the images  *)
(*           the application holds                                         *)
(*   surface VkSurfaceCapabilitiesKHR as the next query would report it    *)
(*   window_size  what podi_window_get_framebuffer_size reports            *)
(*   engine  the process-wide state of src/src/poc_engine.c and g_vk_state,*)
(*           the contexts that exist and the driver's instances and devices*)
(* phase, last and fault observe the calls: the position in the            *)
(* begin_frame/end_frame protocol, what the last call did and returned,    *)
(* and the first undefined behaviour the program executed (after which     *)
(* nothing more is modelled).                                              *)
(***************************************************************************)
EXTENDS Integers, Sequences, FiniteSets, TLC

VARIABLES ctx, robj, dev, surface, window_size, phase, last, fault, engine

vars == <<ctx, robj, dev, surface, window_size, phase, last, fault, engine>>

(***************************************************************************)
(* Program constants                                                       *)
(***************************************************************************)
MAX_FRAMES_IN_FLIGHT == 2
\* the special value of currentExtent.width; TLC's integers are 32-bit signed, so
\* the model writes it as the largest of those: only its being different from
\* every real extent is used
UINT32_MAX == 2147483647
VK_NULL_HANDLE == 0
INITIAL_RENDERABLE_CAPACITY == 8

POC_RESULT_SUCCESS == "POC_RESULT_SUCCESS"
POC_RESULT_ERROR_INIT_FAILED == "POC_RESULT_ERROR_INIT_FAILED"

VK_SUCCESS == "VK_SUCCESS"
VK_SUBOPTIMAL_KHR == "VK_SUBOPTIMAL_KHR"
VK_ERROR_OUT_OF_DATE_KHR == "VK_ERROR_OUT_OF_DATE_KHR"
VK_ERROR_SURFACE_LOST_KHR == "VK_ERROR_SURFACE_LOST_KHR"

(***************************************************************************)
(* Bounds of the model                                                     *)
(***************************************************************************)
\* renderable objects that can exist at once (addresses malloc can return)
MaxRenderables == 2
\* buffer-set generations: one per load whose objects are still referenced
MaxGen == 3

(***************************************************************************)
(* The environment: window sizes and surface capabilities                  *)
(***************************************************************************)
\* framebuffer sizes the window can take; <<0, 0>> is a minimised window
WindowSizes == {<<0, 0>>, <<2, 2>>, <<3, 2>>}
MinImageExtent == <<1, 1>>
MaxImageExtent == <<3, 3>>
\* currentExtent of a surface whose size the swapchain determines (Wayland)
UndefinedExtent == <<UINT32_MAX, UINT32_MAX>>
NoExtent == <<0, 0>>

Fences == 0 .. (MAX_FRAMES_IN_FLIGHT - 1)

Min(a, b) == IF a < b THEN a ELSE b

\* K applied to v: names an intermediate result that is computed once and
\* used several times, as a local variable of the C code is
With(v, K(_)) == K(v)

(***************************************************************************)
(* Swapchain creation                                                      *)
(***************************************************************************)
choose_swap_extent_not_clamped(caps, size) == size

choose_swap_extent_clamped(caps, size) ==
    LET w1 == IF size[1] < caps.minImageExtent[1] THEN caps.minImageExtent[1] ELSE size[1]
        w2 == IF w1 > caps.maxImageExtent[1] THEN caps.maxImageExtent[1] ELSE w1
        h1 == IF size[2] < caps.minImageExtent[2] THEN caps.minImageExtent[2] ELSE size[2]
        h2 == IF h1 > caps.maxImageExtent[2] THEN caps.maxImageExtent[2] ELSE h1
    IN  <<w2, h2>>

choose_swap_extent_unclamped(caps, size) ==
    IF caps.currentExtent[1] # UINT32_MAX THEN caps.currentExtent ELSE size

choose_swap_extent(caps, size) ==
    IF caps.currentExtent[1] # UINT32_MAX
    THEN caps.currentExtent
    ELSE choose_swap_extent_clamped(caps, size)

\* the image count create_swapchain_internal asks for
\* An image count that ignores the surface's maximum
swap_image_count_uncapped(caps) == caps.minImageCount + 1

swap_image_count(caps) ==
    LET image_count == caps.minImageCount + 1
    IN  IF caps.maxImageCount > 0 /\ image_count > caps.maxImageCount
        THEN caps.maxImageCount
        ELSE image_count

\* An image view slot of ctx->swapchain_image_views. sc is the swapchain the
\* view was created for and index the swapchain image it views; a slot malloc
\* returned and no vkCreateImageView filled holds junk: sc = 0 when the junk
\* is VK_NULL_HANDLE, -1 otherwise.
ImageView(sid, i) == [valid |-> TRUE, sc |-> sid, index |-> i]
JunkSlot(junk) == [valid |-> FALSE, sc |-> junk, index |-> 0]

\* The depth image and its view. One is created per swapchain, right after
\* it, so the view is named by the swapchain that was current at its creation.
DepthView(sid, extent) == [valid |-> TRUE, extent |-> extent, handle |-> sid]
NoDepth == [valid |-> FALSE, extent |-> NoExtent, handle |-> VK_NULL_HANDLE]

\* A framebuffer slot of ctx->framebuffers: its two attachments (the image
\* view, by swapchain and image index, and the depth view) and its extent.
Framebuffer(view, depth, extent) ==
    [valid |-> TRUE, sc |-> view.sc, view |-> view.index, depth |-> depth.handle,
     extent |-> extent]
JunkFramebuffer(junk) ==
    [valid |-> FALSE, sc |-> junk, view |-> 0, depth |-> VK_NULL_HANDLE, extent |-> NoExtent]

\* Handles the context or the driver still mentions; a new swapchain gets
\* the smallest handle that is not among them.
SwapchainHandlesInUse(c, d) ==
    d.live_swapchains \cup {c.swapchain}
        \cup {c.swapchain_image_views[i].sc : i \in DOMAIN c.swapchain_image_views}
        \cup {c.framebuffers[i].sc : i \in DOMAIN c.framebuffers}

FreshSwapchain(c, d) ==
    CHOOSE n \in 1 .. (Cardinality(SwapchainHandlesInUse(c, d)) + 1) :
        /\ n \notin SwapchainHandlesInUse(c, d)
        /\ \A m \in 1 .. (n - 1) : m \in SwapchainHandlesInUse(c, d)

\* Where a swapchain (re)creation fails: <<stage, index, junk>>. stage is
\* the Vulkan call that returns an error ("none": all succeed), index the
\* array slot it was creating (the first or the last), junk what malloc left in the unfilled slots.
FailPoints(n) ==
    {<<"none", 0, 0>>, <<"swapchain", 0, 0>>, <<"depth", 0, 0>>}
        \cup {<<"view", i, j>> : i \in {0, n - 1}, j \in {0, -1}}
        \cup {<<"framebuffer", i, j>> : i \in {0, n - 1}, j \in {0, -1}}

NoFail == <<"none", 0, 0>>

\* vkCreateSwapchainKHR fails: ctx->swapchain keeps the handle it had.
create_swapchain_internal(c, d, caps, size, fp) ==
    With(choose_swap_extent(caps, size), LAMBDA extent :
    With(swap_image_count(caps), LAMBDA image_count :
    With(FreshSwapchain(c, d), LAMBDA sid :
    With(IF fp[1] = "view" THEN fp[2] ELSE image_count, LAMBDA made :
        IF fp[1] = "swapchain"
        THEN [c |-> c, d |-> d, r |-> POC_RESULT_ERROR_INIT_FAILED]
        ELSE [c |-> [c EXCEPT !.swapchain = sid,
                              !.swapchain_extent = extent,
                              !.swapchain_image_count = image_count,
                              !.swapchain_image_views =
                                  [i \in 1 .. image_count |->
                                      IF i <= made THEN ImageView(sid, i) ELSE JunkSlot(fp[3])]],
              d |-> [d EXCEPT !.live_swapchains = @ \cup {sid}, !.image_count = image_count,
                              !.acquired = {}],
              r |-> IF fp[1] = "view" THEN POC_RESULT_ERROR_INIT_FAILED
                                      ELSE POC_RESULT_SUCCESS]))))

(***************************************************************************)
(* The GPU side: the graphics queue and the fences                         *)
(***************************************************************************)
\* A batch that signals the semaphore of its frame slot
Submission_by_frame(fence, cmd, wait, signal, reads) ==
    [fence |-> fence, cmd |-> cmd, wait |-> wait, signal |-> fence, reads |-> reads]

\* A batch handed to vkQueueSubmit that the GPU has not finished:
\*   fence  index of the in-flight fence attached to it
\*   cmd    index of the command buffer it executes
\*   wait   index of the image-available semaphore it waits on
\*   signal index of the render-finished semaphore it signals
\*   reads  the buffers and binding sets its draws reference, as <<kind, gen>>
Submission(fence, cmd, wait, signal, reads) ==
    [fence |-> fence, cmd |-> cmd, wait |-> wait, signal |-> signal, reads |-> reads]

FencesOf(q, k) == {q[j].fence : j \in 1 .. k}

\* vkDeviceWaitIdle / vkQueueWaitIdle: returns once every pending batch has
\* finished, which signals their fences.
vkDeviceWaitIdle(d) ==
    [d EXCEPT !.queue = <<>>,
              !.fence_signaled = [f \in Fences |-> @[f] \/ f \in FencesOf(d.queue, Len(d.queue))]]

\* the fence is signaled, or a pending batch will signal it
FenceCanSignal(d, f) ==
    d.fence_signaled[f] \/ f \in FencesOf(d.queue, Len(d.queue))

vkWaitForFences_skipped(d, f) == d

\* vkWaitForFences(..., UINT64_MAX): returns once the fence is signaled. The
\* queue finishes its batches in submission order, so the batch carrying
\* the fence and every batch before it have finished by then.
vkWaitForFences(d, f) ==
    IF d.fence_signaled[f] \/ ~FenceCanSignal(d, f)
    THEN d
    ELSE LET k == CHOOSE i \in DOMAIN d.queue :
                      /\ d.queue[i].fence = f
                      /\ \A j \in 1 .. (i - 1) : d.queue[j].fence # f
         IN  [d EXCEPT !.queue = SubSeq(@, k + 1, Len(@)),
                       !.fence_signaled = [g \in Fences |-> @[g] \/ g \in FencesOf(d.queue, k)]]

vkResetFences(d, f) == [d EXCEPT !.fence_signaled[f] = FALSE]

(***************************************************************************)
(* Swapchain recreation                                                    *)
(***************************************************************************)
\* vkDestroyImageView on every non-null slot; a slot holding junk that is
\* not VK_NULL_HANDLE hands an invalid handle to the driver.
cleanup_swapchain_images(c) ==
    LET n == Min(c.swapchain_image_count, Len(c.swapchain_image_views))
        junk == \E i \in 1 .. n : /\ ~c.swapchain_image_views[i].valid
                                  /\ c.swapchain_image_views[i].sc # VK_NULL_HANDLE
    IN  [c |-> [c EXCEPT !.swapchain_image_views = <<>>, !.swapchain_image_count = 0],
         f |-> IF junk THEN "invalid_handle" ELSE "none"]

cleanup_pipeline_dependent_resources(c) ==
    IF c.framebuffers # <<>>
    THEN LET n == Min(c.framebuffer_count, Len(c.framebuffers))
             junk == \E i \in 1 .. n : /\ ~c.framebuffers[i].valid
                                       /\ c.framebuffers[i].sc # VK_NULL_HANDLE
         IN  [c |-> [c EXCEPT !.framebuffers = <<>>, !.framebuffer_count = 0],
              f |-> IF junk THEN "invalid_handle" ELSE "none"]
    ELSE [c |-> c, f |-> "none"]

cleanup_depth_resources(c) == [c EXCEPT !.depth = NoDepth]

\* A recreation that leaves the depth buffer out
create_depth_resources_skipped(c, fp) == [c |-> c, r |-> POC_RESULT_SUCCESS]

\* fp[1] = "depth": vkCreateImage fails and nothing is stored
create_depth_resources(c, fp) ==
    IF fp[1] = "depth"
    THEN [c |-> c, r |-> POC_RESULT_ERROR_INIT_FAILED]
    ELSE [c |-> [c EXCEPT !.depth = DepthView(c.swapchain, c.swapchain_extent)],
          r |-> POC_RESULT_SUCCESS]

\* fp[1] = "framebuffer": vkCreateFramebuffer fails for slot fp[2]; the array
\* is allocated, the slots before it are filled, framebuffer_count is not set
create_framebuffers(c, fp) ==
    With(IF c.framebuffers # <<>> THEN cleanup_pipeline_dependent_resources(c).c ELSE c,
         LAMBDA c0 :
    With(c0.swapchain_image_count, LAMBDA n :
    With(IF fp[1] = "framebuffer" THEN fp[2] ELSE n, LAMBDA made :
    With([i \in 1 .. n |->
             IF i <= made THEN Framebuffer(c0.swapchain_image_views[i], c0.depth,
                                          c0.swapchain_extent)
                          ELSE JunkFramebuffer(fp[3])], LAMBDA fbs :
        IF fp[1] = "framebuffer"
        THEN [c |-> [c0 EXCEPT !.framebuffers = fbs], r |-> POC_RESULT_ERROR_INIT_FAILED]
        ELSE [c |-> [c0 EXCEPT !.framebuffers = fbs, !.framebuffer_count = n],
              r |-> POC_RESULT_SUCCESS]))))

FirstFault(f1, f2) == IF f1 # "none" THEN f1 ELSE f2

\* A recreation that reports success and leaves the swapchain as it is
recreate_swapchain_kept(c, d, caps, size, fp) ==
    [c |-> c, d |-> vkDeviceWaitIdle(d), r |-> POC_RESULT_SUCCESS, f |-> "none"]

\* The old swapchain is passed to vkCreateSwapchainKHR as oldSwapchain and
\* destroyed afterwards whether or not the creation succeeded. A handle that
\* was destroyed before (by an earlier failed recreation) is used again here.
recreate_swapchain(c, d, caps, size, fp) ==
    With(vkDeviceWaitIdle(d), LAMBDA d1 :
    With(cleanup_swapchain_images(c), LAMBDA s1 :
    With(cleanup_pipeline_dependent_resources(s1.c), LAMBDA s2 :
    With(cleanup_depth_resources(s2.c), LAMBDA c3 :
    With(c3.swapchain, LAMBDA old_swapchain :
    With(create_swapchain_internal(c3, d1, caps, size, fp), LAMBDA s4 :
    With(old_swapchain # VK_NULL_HANDLE /\ old_swapchain \notin d1.live_swapchains, LAMBDA stale :
    With(IF old_swapchain # VK_NULL_HANDLE
         THEN [s4.d EXCEPT !.live_swapchains = @ \ {old_swapchain}]
         ELSE s4.d, LAMBDA d5 :
    With(FirstFault(s1.f, FirstFault(s2.f, IF stale THEN "destroyed_handle" ELSE "none")),
         LAMBDA f5 :
        IF s4.r # POC_RESULT_SUCCESS THEN [c |-> s4.c, d |-> d5, r |-> s4.r, f |-> f5]
        ELSE With(create_depth_resources(s4.c, fp), LAMBDA s6 :
             IF s6.r # POC_RESULT_SUCCESS THEN [c |-> s6.c, d |-> d5, r |-> s6.r, f |-> f5]
             ELSE With(create_framebuffers(s6.c, fp), LAMBDA s7 :
                  [c |-> s7.c, d |-> d5, r |-> s7.r, f |-> f5]))
    )))))))))

(***************************************************************************)
(* Renderables                                                             *)
(***************************************************************************)
\* Identities of struct poc_renderable objects; 0 is the NULL pointer.
RenderableIds == 1 .. MaxRenderables
\* The meshes a load can be given: its vertex/index data and counts.
Meshes == {1, 2}
\* Model matrices; 1 is the identity glm_mat4_identity stores.
Matrices == {1, 2}
IdentityMatrix == 1

\* memset(renderable, 0, ...) plus the identity transform
NewRenderable ==
    [allocated |-> TRUE,
     vertex_buffer |-> VK_NULL_HANDLE, vertex_buffer_memory |-> VK_NULL_HANDLE,
     index_buffer |-> VK_NULL_HANDLE, index_buffer_memory |-> VK_NULL_HANDLE,
     vertex_count |-> 0, index_count |-> 0,
     uniform_buffer |-> VK_NULL_HANDLE, uniform_buffer_memory |-> VK_NULL_HANDLE,
     uniform_buffer_mapped |-> 0, descriptor_set |-> VK_NULL_HANDLE,
     model_matrix |-> IdentityMatrix]

FreedRenderable == [NewRenderable EXCEPT !.allocated = FALSE]

\* GPU objects are named <<kind, gen>>: gen numbers the load that created
\* them. dev.objects maps each live object to the data it holds and the
\* renderable it was allocated for.
Obj(kind, g) == <<kind, g>>
ObjInfo(data, owner) == [data |-> data, owner |-> owner]

Live(d) == DOMAIN d.objects

AddObj(objs, o, info) == [x \in DOMAIN objs \cup {o} |-> IF x = o THEN info ELSE objs[x]]
DelObjs(objs, os) == [x \in DOMAIN objs \ os |-> objs[x]]
SetData(objs, o, data) ==
    [x \in DOMAIN objs |-> IF x = o THEN [objs[x] EXCEPT !.data = data] ELSE objs[x]]

GensInUse(ro, d) ==
    {o[2] : o \in Live(d)}
        \cup UNION {{ro[r].vertex_buffer, ro[r].vertex_buffer_memory, ro[r].index_buffer,
                     ro[r].index_buffer_memory, ro[r].uniform_buffer,
                     ro[r].uniform_buffer_memory, ro[r].descriptor_set} : r \in RenderableIds}
        \cup UNION {{o[2] : o \in d.queue[i].reads} : i \in DOMAIN d.queue}
        \cup UNION {{o[2] : o \in d.command_buffers[i]} : i \in DOMAIN d.command_buffers}

FreeGens(ro, d) == (1 .. MaxGen) \ GensInUse(ro, d)
FreshGen(ro, d) == CHOOSE g \in FreeGens(ro, d) : \A h \in FreeGens(ro, d) : g <= h

\* Identities no renderable and no live object carries.
FreeRenderableIds(ro, d) ==
    {r \in DOMAIN ro : ~ro[r].allocated /\ \A o \in Live(d) : d.objects[o].owner # r}

\* sets taken from the context's descriptor pool and not given back
PoolSets(d) == {o \in Live(d) : o[1] = "descriptor_set"}
\* maxSets of create_descriptor_pool
DescriptorPoolMaxSets == MAX_FRAMES_IN_FLIGHT

Position(seq, x) ==
    IF \E i \in DOMAIN seq : seq[i] = x
    THEN CHOOSE i \in DOMAIN seq : seq[i] = x /\ \A j \in 1 .. (i - 1) : seq[j] # x
    ELSE 0

\* A removal that fills the hole with the last entry
RemoveAt_swap_last(seq, i) ==
    [j \in 1 .. (Len(seq) - 1) |-> IF j = i THEN seq[Len(seq)] ELSE seq[j]]

RemoveAt(seq, i) == [j \in 1 .. (Len(seq) - 1) |-> IF j < i THEN seq[j] ELSE seq[j + 1]]

\* The allocation of a create_renderable call that returns NULL, if any
OomPoints == {"none", "realloc", "malloc"}

\* A create_renderable that never resizes the array
poc_context_create_renderable_unresized(c, ro, d, oom) ==
    LET rid == CHOOSE r \in FreeRenderableIds(ro, d) : \A q \in FreeRenderableIds(ro, d) : r <= q
    IN  IF oom = "malloc"
        THEN [c |-> c, ro |-> ro, ret |-> 0]
        ELSE [c |-> [c EXCEPT !.renderables = Append(@, rid),
                              !.renderable_count = @ + 1],
              ro |-> [ro EXCEPT ![rid] = NewRenderable],
              ret |-> rid]

\* poc_context_create_renderable; oom: the allocation that returns NULL (the
\* realloc only when the array is full and the call reaches it)
poc_context_create_renderable(c, ro, d, oom) ==
    LET new_capacity == IF c.renderable_count >= c.renderable_capacity
                        THEN c.renderable_capacity * 2 ELSE c.renderable_capacity
        rid == CHOOSE r \in FreeRenderableIds(ro, d) : \A q \in FreeRenderableIds(ro, d) : r <= q
    IN  IF oom = "realloc" /\ c.renderable_count >= c.renderable_capacity
        THEN [c |-> c, ro |-> ro, ret |-> 0]
        ELSE IF oom = "malloc"
        THEN [c |-> [c EXCEPT !.renderable_capacity = new_capacity], ro |-> ro, ret |-> 0]
        ELSE [c |-> [c EXCEPT !.renderable_capacity = new_capacity,
                              !.renderables = Append(@, rid),
                              !.renderable_count = @ + 1],
              ro |-> [ro EXCEPT ![rid] = NewRenderable],
              ret |-> rid]

\* the objects a renderable's handle fields name
RenderableObjs(r) ==
    {Obj("vertex_buffer", r.vertex_buffer), Obj("vertex_memory", r.vertex_buffer_memory),
     Obj("index_buffer", r.index_buffer), Obj("index_memory", r.index_buffer_memory),
     Obj("uniform_buffer", r.uniform_buffer), Obj("uniform_memory", r.uniform_buffer_memory)}

\* vkDestroyBuffer / vkFreeMemory on every handle field that is not null
ReleaseBuffers(r, d) ==
    [d EXCEPT !.objects = DelObjs(@, {o \in RenderableObjs(r) : o[2] # VK_NULL_HANDLE} \cap Live(d))]

\* ... which hands the driver an invalid handle when the field names no live object
ReleaseFault(r, d) ==
    IF \E o \in RenderableObjs(r) : o[2] # VK_NULL_HANDLE /\ o \notin Live(d)
    THEN "invalid_handle" ELSE "none"

\* A destroy that does not search the array and drops its last entry
poc_context_destroy_renderable_unsearched(c, ro, d, rid) ==
    IF rid = 0 \/ c.renderable_count = 0
    THEN [c |-> c, ro |-> ro, d |-> d, found |-> FALSE, f |-> "none"]
    ELSE [c |-> [c EXCEPT !.renderables = RemoveAt(@, Len(@)),
                          !.renderable_count = @ - 1],
          ro |-> ro, d |-> d, found |-> TRUE, f |-> "none"]

\* poc_context_destroy_renderable: the descriptor set stays in the pool
poc_context_destroy_renderable(c, ro, d, rid) ==
    LET index == Position(c.renderables, rid)
    IN  IF rid = 0 \/ index = 0
        THEN [c |-> c, ro |-> ro, d |-> d, found |-> FALSE, f |-> "none"]
        ELSE [c |-> [c EXCEPT !.renderables = RemoveAt(@, index),
                              !.renderable_count = @ - 1],
              ro |-> [ro EXCEPT ![rid] = FreedRenderable],
              d |-> ReleaseBuffers(ro[rid], d),
              found |-> TRUE,
              f |-> ReleaseFault(ro[rid], d)]

(***************************************************************************)
(* Loading geometry into a renderable                                      *)
(***************************************************************************)
\* The Vulkan calls of create_renderable_buffers that can fail, in program
\* order; a load is given the step that fails, NoLoadFail when none does.
LoadSteps ==
    <<"vertex_staging_buffer", "vertex_staging_memory", "vertex_buffer", "vertex_memory",
      "index_staging_buffer", "index_staging_memory", "index_buffer", "index_memory",
      "uniform_buffer", "uniform_memory", "map_memory", "descriptor_set">>
NoLoadFail == Len(LoadSteps) + 1
StepOf(name) == CHOOSE i \in DOMAIN LoadSteps : LoadSteps[i] = name

\* What a failing Vulkan call leaves in its output parameter: the contents
\* are undefined, VK_NULL_HANDLE (0) or something that is no handle (-1).
JunkHandles == {VK_NULL_HANDLE, -1}

\* lines 2763-2791: the buffers of the previous load are destroyed first;
\* the descriptor set handle is left as it is
release_prior_buffers(r, d) ==
    [r |-> [r EXCEPT !.vertex_buffer = VK_NULL_HANDLE, !.vertex_buffer_memory = VK_NULL_HANDLE,
                     !.index_buffer = VK_NULL_HANDLE, !.index_buffer_memory = VK_NULL_HANDLE,
                     !.uniform_buffer = VK_NULL_HANDLE, !.uniform_buffer_memory = VK_NULL_HANDLE,
                     !.uniform_buffer_mapped =
                         IF r.uniform_buffer # VK_NULL_HANDLE THEN 0 ELSE @],
     d |-> ReleaseBuffers(r, d),
     f |-> ReleaseFault(r, d)]

\* copy_buffer: a one-shot transfer followed by vkQueueWaitIdle on the
\* graphics queue, which also waits for every frame submitted before
copy_buffer(d, src, dst) ==
    With(vkDeviceWaitIdle(d), LAMBDA d1 :
        [d1 EXCEPT !.objects = SetData(@, dst, d.objects[src].data)])

\* One staged upload (lines 2793-2857 for vertices, 2859-2919 for indices):
\* base is the step of its first call, kind and memkind the target objects.
\* The staging pair is released only when all four allocations succeeded.
staged_upload(d, g, rid, mesh, fail, base, kind, memkind) ==
    LET sb == Obj("staging_buffer", g)
        sm == Obj("staging_memory", g)
        tb == Obj(kind, g)
        tm == Obj(memkind, g)
    IN  With(IF fail > base THEN AddObj(d.objects, sb, ObjInfo(0, rid)) ELSE d.objects,
             LAMBDA o1 :
        \* vkMapMemory + memcpy fill the staging buffer once its memory exists
        With(IF fail > base + 1
             THEN AddObj(SetData(o1, sb, mesh), sm, ObjInfo(0, rid)) ELSE o1, LAMBDA o2 :
        With(IF fail > base + 2 THEN AddObj(o2, tb, ObjInfo(0, rid)) ELSE o2, LAMBDA o3 :
        With(IF fail > base + 3 THEN AddObj(o3, tm, ObjInfo(0, rid)) ELSE o3, LAMBDA o4 :
        With([d EXCEPT !.objects = o4], LAMBDA d4 :
            IF fail > base + 3
            THEN With(copy_buffer(d4, sb, tb), LAMBDA d5 :
                      [d5 EXCEPT !.objects = DelObjs(@, {sb, sm})])
            ELSE d4)))))

\* vkAllocateDescriptorSets on a pool that has handed out maxSets sets: the
\* driver may refuse, or hand out one more (overcommit)
EffectiveFail(d, fail, overcommit) ==
    IF fail = NoLoadFail /\ Cardinality(PoolSets(d)) >= DescriptorPoolMaxSets /\ ~overcommit
    THEN StepOf("descriptor_set")
    ELSE fail

create_renderable_buffers(r, rid, d, g, mesh, fail0, junk, overcommit) ==
    With(release_prior_buffers(r, d), LAMBDA s0 :
    With(EffectiveFail(s0.d, fail0, overcommit), LAMBDA fail :
    With(staged_upload(s0.d, g, rid, mesh, fail, StepOf("vertex_staging_buffer"),
                       "vertex_buffer", "vertex_memory"), LAMBDA dv :
    With(IF fail > StepOf("vertex_memory")
         THEN staged_upload(dv, g, rid, mesh, fail, StepOf("index_staging_buffer"),
                            "index_buffer", "index_memory")
         ELSE dv, LAMBDA di :
    With(IF fail > StepOf("uniform_buffer")
         THEN AddObj(di.objects, Obj("uniform_buffer", g), ObjInfo(0, rid)) ELSE di.objects,
         LAMBDA ou :
    With(IF fail > StepOf("uniform_memory")
         THEN AddObj(ou, Obj("uniform_memory", g), ObjInfo(0, rid)) ELSE ou, LAMBDA om :
    \* vkUpdateDescriptorSets points the new set at the new uniform buffer
    With(IF fail > StepOf("descriptor_set")
         THEN AddObj(om, Obj("descriptor_set", g), ObjInfo(g, rid)) ELSE om, LAMBDA os :
    LET has(step, old) == IF fail > StepOf(step) THEN g
                          ELSE IF fail = StepOf(step) THEN junk ELSE old
    IN  [r |-> [s0.r EXCEPT
                  !.vertex_buffer = has("vertex_buffer", @),
                  !.vertex_buffer_memory = has("vertex_memory", @),
                  !.index_buffer = has("index_buffer", @),
                  !.index_buffer_memory = has("index_memory", @),
                  !.vertex_count = IF fail > StepOf("index_memory") THEN mesh ELSE @,
                  !.index_count = IF fail > StepOf("index_memory") THEN mesh ELSE @,
                  !.uniform_buffer = has("uniform_buffer", @),
                  !.uniform_buffer_memory = has("uniform_memory", @),
                  !.uniform_buffer_mapped = has("map_memory", @),
                  \* a failed vkAllocateDescriptorSets stores VK_NULL_HANDLE
                  !.descriptor_set = IF fail > StepOf("descriptor_set") THEN g
                                     ELSE IF fail = StepOf("descriptor_set") THEN VK_NULL_HANDLE
                                     ELSE @],
         d |-> [di EXCEPT !.objects = os],
         res |-> IF fail = NoLoadFail THEN POC_RESULT_SUCCESS ELSE POC_RESULT_ERROR_INIT_FAILED,
         f |-> s0.f])))))))

\* poc_renderable_load_model: parse_ok is whether poc_model_load finds
\* geometry in the file; nothing is touched when it does not
poc_renderable_load_model(r, rid, d, g, mesh, parse_ok, fail, junk, overcommit) ==
    IF ~parse_ok
    THEN [r |-> r, d |-> d, res |-> POC_RESULT_ERROR_INIT_FAILED, f |-> "none"]
    ELSE create_renderable_buffers(r, rid, d, g, mesh, fail, junk, overcommit)

poc_renderable_set_transform(r, m) == [r EXCEPT !.model_matrix = m]

(***************************************************************************)
(* The frame loop                                                          *)
(***************************************************************************)
\* the k-th smallest element of a non-empty set of numbers, k counted from 0
\* and taken modulo the size of the set
Pick(S, k) == CHOOSE x \in S : Cardinality({y \in S : y < x}) = k % Cardinality(S)

\* The images of the current swapchain the application does not hold. The
\* presentation engine may hand out any of them, in any order.
AvailableImages(d) == (0 .. (d.image_count - 1)) \ d.acquired

\* A driver result check that lets everything pass
Usable_always(result) == TRUE

Usable(result) == result \in {VK_SUCCESS, VK_SUBOPTIMAL_KHR}

\* vkAcquireNextImageKHR(..., UINT64_MAX, ...) with the result the driver
\* reports and the image the presentation engine chooses
vkAcquireNextImageKHR(d, swapchain, result, choice) ==
    IF swapchain \notin d.live_swapchains
    THEN [d |-> d, result |-> result, image |-> 0, f |-> "destroyed_handle"]
    ELSE IF ~Usable(result)
    THEN [d |-> d, result |-> result, image |-> 0, f |-> "none"]
    ELSE IF AvailableImages(d) = {}
    THEN [d |-> d, result |-> result, image |-> 0, f |-> "hang"]
    ELSE LET image == Pick(AvailableImages(d), choice)
         IN  [d |-> [d EXCEPT !.acquired = @ \cup {image}],
              result |-> result, image |-> image, f |-> "none"]

\* What one begin_frame call is given by its environment.
FrameInput(fp1, acq1, img1, fp2, acq2, img2) ==
    [fp1 |-> fp1, acq1 |-> acq1, img1 |-> img1, fp2 |-> fp2, acq2 |-> acq2, img2 |-> img2]

\* A size check that recreates whenever a recreation is pending
begin_frame_resize_eager(c, d, caps, size, in) ==
    With(IF size # c.last_known
         THEN [c EXCEPT !.needs_swapchain_recreation = TRUE, !.last_known = size]
         ELSE c, LAMBDA c1 :
        IF ~c1.needs_swapchain_recreation
        THEN [c |-> c1, d |-> d, r |-> POC_RESULT_SUCCESS, f |-> "none", recreated |-> 0]
        ELSE With(recreate_swapchain(c1, d, caps, size, in.fp1), LAMBDA rc :
             IF rc.f # "none" \/ rc.r # POC_RESULT_SUCCESS
             THEN [c |-> rc.c, d |-> rc.d, r |-> rc.r, f |-> rc.f, recreated |-> 1]
             ELSE [c |-> [rc.c EXCEPT !.needs_swapchain_recreation = FALSE],
                   d |-> rc.d, r |-> POC_RESULT_SUCCESS, f |-> "none", recreated |-> 1]))

\* lines 2320-2344: size tracking and the recreation it triggers
begin_frame_resize(c, d, caps, size, in) ==
    With(IF size # c.last_known
         THEN [c EXCEPT !.needs_swapchain_recreation = TRUE, !.last_known = size]
         ELSE c, LAMBDA c1 :
        IF ~(c1.needs_swapchain_recreation /\ size # c1.swapchain_extent)
        THEN [c |-> c1, d |-> d, r |-> POC_RESULT_SUCCESS, f |-> "none", recreated |-> 0]
        ELSE With(recreate_swapchain(c1, d, caps, size, in.fp1), LAMBDA rc :
             IF rc.f # "none" \/ rc.r # POC_RESULT_SUCCESS
             THEN [c |-> rc.c, d |-> rc.d, r |-> rc.r, f |-> rc.f, recreated |-> 1]
             ELSE [c |-> [rc.c EXCEPT !.needs_swapchain_recreation = FALSE],
                   d |-> rc.d, r |-> POC_RESULT_SUCCESS, f |-> "none", recreated |-> 1]))

\* lines 2346-2348: the fence of the current frame slot
begin_frame_wait(c, d) ==
    IF ~FenceCanSignal(d, c.current_frame)
    THEN [d |-> d, f |-> "hang"]
    ELSE [d |-> vkResetFences(vkWaitForFences(d, c.current_frame), c.current_frame),
          f |-> "none"]

\* lines 2352-2372: acquisition, with one recreation and one retry when the
\* swapchain is out of date. sem_count is the length of the semaphore arrays.
begin_frame_acquire(c, d, caps, size, in, sem_count) ==
    LET count == c.swapchain_image_count
        acquire_semaphore_index == IF count = 0 THEN 0 ELSE c.current_frame % count
        out(cc, dd, r, f, result, image, recreated, results) ==
            [c |-> cc, d |-> dd, r |-> r, f |-> f, result |-> result, image |-> image,
             semaphore |-> acquire_semaphore_index, recreated |-> recreated,
             results |-> results,
             semaphores |-> [i \in DOMAIN results |-> acquire_semaphore_index]]
    IN  IF count = 0
        THEN out(c, d, "undefined", "division_by_zero", in.acq1, 0, 0, <<>>)
        ELSE IF acquire_semaphore_index >= sem_count
        THEN out(c, d, "undefined", "out_of_bounds", in.acq1, 0, 0, <<>>)
        ELSE With(vkAcquireNextImageKHR(d, c.swapchain, in.acq1, in.img1), LAMBDA a1 :
        IF a1.f # "none"
        THEN out(c, a1.d, "undefined", a1.f, a1.result, 0, 0, <<a1.result>>)
        ELSE IF a1.result # VK_ERROR_OUT_OF_DATE_KHR
        THEN out(c, a1.d,
                 IF Usable(a1.result) THEN POC_RESULT_SUCCESS ELSE POC_RESULT_ERROR_INIT_FAILED,
                 "none", a1.result, a1.image, 0, <<a1.result>>)
        ELSE With(recreate_swapchain(c, a1.d, caps, size, in.fp2), LAMBDA rc :
        IF rc.f # "none" \/ rc.r # POC_RESULT_SUCCESS
        THEN out(rc.c, rc.d, rc.r, rc.f, a1.result, 0, 1, <<a1.result>>)
        ELSE With(vkAcquireNextImageKHR(rc.d, rc.c.swapchain, in.acq2, in.img2), LAMBDA a2 :
        IF a2.f # "none"
        THEN out(rc.c, a2.d, "undefined", a2.f, a2.result, 0, 1, <<a1.result, a2.result>>)
        ELSE out(rc.c, a2.d,
                 IF Usable(a2.result) THEN POC_RESULT_SUCCESS ELSE POC_RESULT_ERROR_INIT_FAILED,
                 "none", a2.result, a2.image, 1, <<a1.result, a2.result>>))))

\* line 2469: a renderable is drawn when both geometry handles are set
HasGeometry(r) == r.vertex_buffer # VK_NULL_HANDLE /\ r.index_buffer # VK_NULL_HANDLE

Reverse(seq) == [i \in 1 .. Len(seq) |-> seq[Len(seq) + 1 - i]]

DrawList_backwards(c, ro) ==
    LET drawn(rid) == HasGeometry(ro[rid])
    IN  Reverse(SelectSeq(c.renderables, drawn))

\* the renderables the loop at lines 2467-2491 draws, in array order
DrawList(c, ro) ==
    LET drawn(rid) == HasGeometry(ro[rid])
    IN  SelectSeq(c.renderables, drawn)

\* update_renderable_uniform_buffer: memcpy through the persistent mapping
UniformTarget(r) == Obj("uniform_buffer", r.uniform_buffer_mapped)

update_renderable_uniform_buffer_identity(objs, r) ==
    IF r.uniform_buffer_mapped = 0 \/ UniformTarget(r) \notin DOMAIN objs
    THEN objs
    ELSE SetData(objs, UniformTarget(r), IdentityMatrix)

update_renderable_uniform_buffer(objs, r) ==
    IF r.uniform_buffer_mapped = 0 \/ UniformTarget(r) \notin DOMAIN objs
    THEN objs
    ELSE SetData(objs, UniformTarget(r), r.model_matrix)

\* the mapping is a pointer into memory that is gone, or no pointer at all
UniformWriteFault(d, r) ==
    IF r.uniform_buffer_mapped # 0 /\ Obj("uniform_memory", r.uniform_buffer_mapped) \notin Live(d)
    THEN "wild_write" ELSE "none"

\* what the commands recorded for one renderable make the GPU read
DrawReads(d, r) ==
    {Obj("vertex_buffer", r.vertex_buffer), Obj("index_buffer", r.index_buffer),
     Obj("descriptor_set", r.descriptor_set)}
        \cup (IF Obj("descriptor_set", r.descriptor_set) \in Live(d)
              THEN {Obj("uniform_buffer", d.objects[Obj("descriptor_set", r.descriptor_set)].data)}
              ELSE {})

\* binding a handle that names no live object
DrawFault(d, r) ==
    IF DrawReads(d, r) \subseteq Live(d) THEN "none"
    ELSE IF r.descriptor_set # VK_NULL_HANDLE /\ r.vertex_buffer > 0 /\ r.index_buffer > 0
    THEN "destroyed_handle" ELSE "invalid_handle"

RECURSIVE RecordDraws(_, _, _, _)
\* the loop body applied to the renderables of list from position i on;
\* returns the device memory after the uniform writes and the first fault
RecordDraws(list, i, ro, d) ==
    IF i > Len(list)
    THEN [d |-> d, f |-> "none"]
    ELSE With(ro[list[i]], LAMBDA r :
         With(FirstFault(UniformWriteFault(d, r), DrawFault(d, r)), LAMBDA f :
             IF f # "none"
             THEN [d |-> d, f |-> f]
             ELSE RecordDraws(list, i + 1, ro,
                              [d EXCEPT !.objects = update_renderable_uniform_buffer(@, r)])))

\* A recording that remembers the semaphore slot of the image, not the one
\* the acquisition was given
begin_frame_record_by_image(c, ro, d, image_index, semaphore) ==
    [c |-> [c EXCEPT !.current_image_index = image_index,
                     !.current_acquire_semaphore_index = image_index],
     d |-> [d EXCEPT !.command_buffers[image_index + 1] = {}],
     f |-> "none"]

\* lines 2374-2506: reset and re-record the command buffer of the image
begin_frame_record(c, ro, d, image_index, semaphore) ==
    With(DrawList(c, ro), LAMBDA list :
    With(RecordDraws(list, 1, ro, d), LAMBDA rec :
    With(UNION {DrawReads(d, ro[list[i]]) : i \in DOMAIN list}, LAMBDA reads :
    With(IF image_index >= Len(d.command_buffers) THEN "out_of_bounds"
         ELSE IF c.framebuffers = <<>> THEN "null_dereference"
         ELSE IF image_index >= Len(c.framebuffers) THEN "out_of_bounds"
         ELSE IF ~c.framebuffers[image_index + 1].valid THEN "invalid_handle"
         ELSE rec.f, LAMBDA f :
        IF f # "none"
        THEN [c |-> c, d |-> d, f |-> f]
        ELSE [c |-> [c EXCEPT !.current_image_index = image_index,
                              !.current_acquire_semaphore_index = semaphore],
              d |-> [rec.d EXCEPT !.command_buffers[image_index + 1] = reads],
              f |-> "none"]))))

\* What a begin_frame call did, for the properties to refer to.
\*   recreated  how many times it ran recreate_swapchain
\*   waited     how many pending batches its fence wait had to see finish
\*   results    what its acquisitions reported, in order
\*   draws      the renderables it recorded a draw for, in order
\*   ubo_writes the uniform buffers it wrote
\*   clear      the clear color it recorded, <<>> when it recorded nothing
\*   semaphores the index of the image-available semaphore each of its
\*              acquisitions was given, in order
FrameObs(recreated, waited, results, image, draws, ubo_writes) ==
    [recreated |-> recreated, waited |-> waited, results |-> results, image |-> image,
     draws |-> draws, ubo_writes |-> ubo_writes, clear |-> <<>>, semaphores |-> <<>>]

\* The color the command buffer clears the window's content with: the clear
\* value of the render pass, or (under client-side decorations, where the
\* render pass clears to black) the vkCmdClearAttachments of the content area
recorded_clear_color(c) == c.clear_color
NoFrameObs == FrameObs(0, 0, <<>>, 0, <<>>, {})

vulkan_context_begin_frame(c, ro, d, caps, size, in) ==
    With(begin_frame_resize(c, d, caps, size, in), LAMBDA s1 :
        IF s1.f # "none" \/ s1.r # POC_RESULT_SUCCESS
        THEN [c |-> s1.c, d |-> s1.d, r |-> s1.r, f |-> s1.f,
              obs |-> FrameObs(s1.recreated, 0, <<>>, 0, <<>>, {})]
        ELSE With(begin_frame_wait(s1.c, s1.d), LAMBDA s2 :
        IF s2.f # "none"
        THEN [c |-> s1.c, d |-> s2.d, r |-> "undefined", f |-> s2.f,
              obs |-> FrameObs(s1.recreated, 0, <<>>, 0, <<>>, {})]
        ELSE With(begin_frame_acquire(s1.c, s2.d, caps, size, in, Len(d.command_buffers)),
                  LAMBDA s3 :
        With(Len(s1.d.queue) - Len(s2.d.queue), LAMBDA waited :
        With(s1.recreated + s3.recreated, LAMBDA recreated :
        IF s3.f # "none" \/ s3.r # POC_RESULT_SUCCESS
        THEN [c |-> s3.c, d |-> s3.d, r |-> s3.r, f |-> s3.f,
              obs |-> [FrameObs(recreated, waited, s3.results, 0, <<>>, {})
                          EXCEPT !.semaphores = s3.semaphores]]
        ELSE With(begin_frame_record(s3.c, ro, s3.d, s3.image, s3.semaphore), LAMBDA s4 :
        With(DrawList(s3.c, ro), LAMBDA list :
        With({UniformTarget(ro[list[i]]) : i \in DOMAIN list} \cap Live(s3.d), LAMBDA writes :
        IF s4.f # "none"
        THEN [c |-> s4.c, d |-> s4.d, r |-> "undefined", f |-> s4.f,
              obs |-> FrameObs(recreated, waited, s3.results, s3.image, <<>>, {})]
        ELSE [c |-> s4.c, d |-> s4.d, r |-> POC_RESULT_SUCCESS, f |-> "none",
              obs |-> [FrameObs(recreated, waited, s3.results, s3.image, list, writes)
                          EXCEPT !.clear = recorded_clear_color(s4.c),
                                 !.semaphores = s3.semaphores]]
        ))))))))

\* vkQueuePresentKHR gives the image back to the presentation engine
vkQueuePresentKHR(d, swapchain, image_index) ==
    IF swapchain \notin d.live_swapchains
    THEN [d |-> d, f |-> "destroyed_handle"]
    ELSE [d |-> [d EXCEPT !.acquired = @ \ {image_index}], f |-> "none"]

\* present is the result vkQueuePresentKHR reports, fp where the recreation
\* it may trigger fails
\* An end_frame that moves on to the next frame slot whatever it returns
vulkan_context_end_frame_advancing(c, d, caps, size, present, fp) ==
    [c |-> [c EXCEPT !.current_frame = (@ + 1) % MAX_FRAMES_IN_FLIGHT], d |-> d,
     r |-> IF present = VK_SUCCESS THEN POC_RESULT_SUCCESS ELSE POC_RESULT_ERROR_INIT_FAILED,
     f |-> "none", recreated |-> 0,
     presented |-> [image |-> c.current_image_index, wait |-> c.current_image_index]]

vulkan_context_end_frame(c, d, caps, size, present, fp) ==
    LET image_index == c.current_image_index
        batch == Submission(c.current_frame, image_index, c.current_acquire_semaphore_index,
                            image_index, d.command_buffers[image_index + 1])
        d1 == [d EXCEPT !.queue = Append(@, batch)]
        \* pImageIndices and pWaitSemaphores of the present: the image, and
        \* the semaphore array the submission signals
        request == [image |-> image_index, wait |-> batch.signal]
        advanced(cc) == [cc EXCEPT !.current_frame = (@ + 1) % MAX_FRAMES_IN_FLIGHT]
    IN  IF image_index >= Len(d.command_buffers)
        THEN [c |-> c, d |-> d, r |-> "undefined", f |-> "out_of_bounds", recreated |-> 0, presented |-> request]
        ELSE With(vkQueuePresentKHR(d1, c.swapchain, image_index), LAMBDA p :
        IF p.f # "none"
        THEN [c |-> c, d |-> p.d, r |-> "undefined", f |-> p.f, recreated |-> 0, presented |-> request]
        ELSE IF present \in {VK_ERROR_OUT_OF_DATE_KHR, VK_SUBOPTIMAL_KHR}
        THEN With(recreate_swapchain(c, p.d, caps, size, fp), LAMBDA rc :
             IF rc.f # "none" \/ rc.r # POC_RESULT_SUCCESS
             THEN [c |-> rc.c, d |-> rc.d, r |-> rc.r, f |-> rc.f, recreated |-> 1, presented |-> request]
             ELSE [c |-> advanced(rc.c), d |-> rc.d, r |-> POC_RESULT_SUCCESS, f |-> "none",
                   recreated |-> 1, presented |-> request])
        ELSE IF present # VK_SUCCESS
        THEN [c |-> c, d |-> p.d, r |-> POC_RESULT_ERROR_INIT_FAILED, f |-> "none",
              recreated |-> 0, presented |-> request]
        ELSE [c |-> advanced(c), d |-> p.d, r |-> POC_RESULT_SUCCESS, f |-> "none",
              recreated |-> 0, presented |-> request])

(***************************************************************************)
(* Initial state: a context vulkan_context_create has just returned        *)
(***************************************************************************)
\* minImageCount values of the surfaces considered; maxImageCount = 0 (no
\* limit), so the swapchain has 2 or 3 images
MinImageCounts == {1, 2}

SurfaceCaps(current, min_count) ==
    [currentExtent |-> current, minImageExtent |-> MinImageExtent,
     maxImageExtent |-> MaxImageExtent, minImageCount |-> min_count, maxImageCount |-> 0]

\* Color components are floats, counted here in tenths: 10 is 1.0f.
\* The pink vulkan_context_create starts with: 1.0, 0.4, 0.8, 1.0
DefaultClearColor == <<10, 4, 8, 10>>

\* memset(ctx, 0, sizeof(poc_context)) and the fields set before the swapchain
ZeroContext(size) ==
    [swapchain |-> VK_NULL_HANDLE, swapchain_extent |-> NoExtent, swapchain_image_count |-> 0,
     swapchain_image_views |-> <<>>, framebuffers |-> <<>>, framebuffer_count |-> 0,
     depth |-> NoDepth, current_frame |-> 0, current_image_index |-> 0,
     current_acquire_semaphore_index |-> 0, needs_swapchain_recreation |-> FALSE,
     last_known |-> size, renderables |-> <<>>, renderable_count |-> 0,
     renderable_capacity |-> INITIAL_RENDERABLE_CAPACITY,
     clear_color |-> <<0, 0, 0, 0>>]

NoDevice ==
    [live_swapchains |-> {}, image_count |-> 0, acquired |-> {}, queue |-> <<>>,
     fence_signaled |-> [f \in Fences |-> FALSE], objects |-> <<>>, command_buffers |-> <<>>]

\* create_command_buffers and create_sync_objects: one command buffer per
\* swapchain image, nothing recorded; the fences start signaled
create_sync_objects(c, d) ==
    [d EXCEPT !.command_buffers = [i \in 1 .. c.swapchain_image_count |-> {}],
              !.fence_signaled = [f \in Fences |-> TRUE]]

\* the successful path of vulkan_context_create
vulkan_context_create(caps, size) ==
    With(create_swapchain_internal(ZeroContext(size), NoDevice, caps, size, NoFail), LAMBDA s1 :
    With(create_depth_resources(s1.c, NoFail), LAMBDA s2 :
    With(create_framebuffers(s2.c, NoFail), LAMBDA s3 :
        [c |-> [s3.c EXCEPT !.clear_color = DefaultClearColor],
         d |-> create_sync_objects(s3.c, s1.d)])))

(***************************************************************************)
(* The engine: poc_init, poc_shutdown, poc_context_create and              *)
(* poc_context_destroy over the process-wide state                         *)
(***************************************************************************)
POC_RENDERER_VULKAN == 0
POC_RENDERER_METAL == 1

\* Bounds of the exploration: devices and instances the driver hands out
MaxDevices == 3
MaxInstances == 2

\* Windows of the application; a context pointer is named by the window the
\* context was created for. NULL is the null window, config and context.
Windows == {1, 2}
NULL == 0

\* poc_config pointers: the renderer type and whether validation is asked
\* for; null marks the null pointer, which has no fields to read
Configs == [renderer_type : {POC_RENDERER_VULKAN, POC_RENDERER_METAL},
            enable_validation : BOOLEAN, null : {FALSE}]
NullConfig == [renderer_type |-> POC_RENDERER_VULKAN, enable_validation |-> FALSE,
               null |-> TRUE]

\* A slot of the heap a poc_context lives in. device is the VkDevice the
\* context's swapchain, pools and buffers were created on.
NoContextSlot == [live |-> FALSE, device |-> VK_NULL_HANDLE]
ContextSlot(device) == [live |-> TRUE, device |-> device]

\* g_initialized, g_current_renderer and g_vk_state as the program starts,
\* no context allocated, and a driver with no instance and no device
NoEngine ==
    [g_initialized |-> FALSE,
     g_current_renderer |-> POC_RENDERER_VULKAN,
     g_vk_state |-> [instance |-> VK_NULL_HANDLE, device |-> VK_NULL_HANDLE,
                     graphics_queue |-> VK_NULL_HANDLE, present_queue |-> VK_NULL_HANDLE],
     contexts |-> [w \in Windows |-> NoContextSlot],
     driver |-> [instances |-> {}, instances_created |-> 0,
                 devices |-> {}, devices_created |-> 0]]

LiveContexts(e) == {w \in Windows : e.contexts[w].live}

\* What can go wrong in vulkan_init: no window backend fits, vkCreateInstance
\* fails, or the debug messenger cannot be created (validation only)
InitOutcomes == {"ok", "backend", "instance", "messenger"}

\* create_instance and setup_debug_messenger; the logical device is left for
\* the context
vulkan_init(e, config, outcome) ==
    IF outcome \in {"backend", "instance"}
    THEN [e |-> e, r |-> POC_RESULT_ERROR_INIT_FAILED]
    ELSE With(e.driver.instances_created + 1, LAMBDA inst :
         With([e EXCEPT !.g_vk_state.instance = inst,
                        !.driver.instances = @ \cup {inst},
                        !.driver.instances_created = inst], LAMBDA e1 :
             IF outcome = "messenger" /\ config.enable_validation
             THEN [e |-> e1, r |-> POC_RESULT_ERROR_INIT_FAILED]
             ELSE [e |-> e1, r |-> POC_RESULT_SUCCESS]))

vulkan_shutdown(e) ==
    [e EXCEPT !.g_vk_state.device = VK_NULL_HANDLE,
              !.g_vk_state.instance = VK_NULL_HANDLE,
              !.driver.devices = @ \ {e.g_vk_state.device},
              !.driver.instances = @ \ {e.g_vk_state.instance}]

\* An init that takes the config's renderer whether or not the engine is
\* initialized already
poc_init_again(e, config, outcome) ==
    IF config.null THEN [e |-> e, r |-> POC_RESULT_ERROR_INIT_FAILED]
    ELSE [e |-> [e EXCEPT !.g_current_renderer = config.renderer_type,
                          !.g_initialized = TRUE],
          r |-> POC_RESULT_SUCCESS]

poc_init(e, config, outcome) ==
    IF e.g_initialized THEN [e |-> e, r |-> POC_RESULT_SUCCESS]
    ELSE IF config.null THEN [e |-> e, r |-> POC_RESULT_ERROR_INIT_FAILED]
    ELSE With([e EXCEPT !.g_current_renderer = config.renderer_type], LAMBDA e1 :
        IF config.renderer_type = POC_RENDERER_VULKAN
        THEN With(vulkan_init(e1, config, outcome), LAMBDA s :
                 IF s.r # POC_RESULT_SUCCESS
                 THEN s
                 ELSE [e |-> [s.e EXCEPT !.g_initialized = TRUE], r |-> POC_RESULT_SUCCESS])
        ELSE [e |-> e1, r |-> POC_RESULT_ERROR_INIT_FAILED])

poc_shutdown(e) ==
    IF ~e.g_initialized THEN e
    ELSE [(IF e.g_current_renderer = POC_RENDERER_VULKAN THEN vulkan_shutdown(e) ELSE e)
             EXCEPT !.g_initialized = FALSE]

\* vkCreateDevice into g_vk_state.device, then the two queues of the new
\* device. When the creation fails the handle is left as it was or cleared
\* (kept), the driver being free to do either.
create_logical_device(e, ok, kept) ==
    IF ~ok
    THEN [e |-> IF kept THEN e ELSE [e EXCEPT !.g_vk_state.device = VK_NULL_HANDLE],
          r |-> POC_RESULT_ERROR_INIT_FAILED]
    ELSE With(e.driver.devices_created + 1, LAMBDA device :
             [e |-> [e EXCEPT !.g_vk_state.device = device,
                              !.g_vk_state.graphics_queue = device,
                              !.g_vk_state.present_queue = device,
                              !.driver.devices = @ \cup {device},
                              !.driver.devices_created = device],
              r |-> POC_RESULT_SUCCESS])

\* Where a context creation can fail: the surface, the choice of a physical
\* device, the logical device, or any later step (the allocation, the
\* swapchain, the pipeline, ...), which frees the context again
CreateOutcomes == {"ok", "surface", "physical_device", "device", "context"}

\* vulkan_context_create as the engine sees it: the checks, the surface, the
\* device, and the context that is returned. A window that already has a
\* surface cannot get a second one.
vulkan_context_create_on(e, window, outcome, kept) ==
    IF window = NULL \/ e.g_vk_state.instance = VK_NULL_HANDLE
    THEN [e |-> e, ctx |-> NULL]
    ELSE IF outcome \in {"surface", "physical_device"} \/ e.contexts[window].live
    THEN [e |-> e, ctx |-> NULL]
    ELSE With(create_logical_device(e, outcome # "device", kept), LAMBDA s :
        IF s.r # POC_RESULT_SUCCESS \/ outcome = "context"
        THEN [e |-> s.e, ctx |-> NULL]
        ELSE [e |-> [s.e EXCEPT !.contexts[window] = ContextSlot(s.e.g_vk_state.device)],
              ctx |-> window])

\* A context creation that does not look at g_initialized
poc_context_create_unchecked(e, window, outcome, kept) ==
    vulkan_context_create_on(e, window, outcome, kept)

poc_context_create(e, window, outcome, kept) ==
    IF ~e.g_initialized \/ window = NULL THEN [e |-> e, ctx |-> NULL]
    ELSE IF e.g_current_renderer = POC_RENDERER_VULKAN
    THEN vulkan_context_create_on(e, window, outcome, kept)
    ELSE [e |-> e, ctx |-> NULL]

\* Every object of the context is destroyed through g_vk_state.device: a
\* null device, or a device other than the one the objects were created on,
\* is a handle the driver does not accept
vulkan_context_destroy(e, c) ==
    IF c = NULL THEN [e |-> e, f |-> "none"]
    ELSE [e |-> [e EXCEPT !.contexts[c] = NoContextSlot],
          f |-> IF e.g_vk_state.device = e.contexts[c].device THEN "none"
                ELSE "invalid_handle"]

poc_context_destroy(e, c) ==
    IF c = NULL THEN [e |-> e, f |-> "none"]
    ELSE IF e.g_current_renderer = POC_RENDERER_VULKAN
    THEN vulkan_context_destroy(e, c)
    ELSE [e |-> e, f |-> "none"]

\* The engine the frame loop runs on: initialized, with one context
RunningEngine ==
    poc_context_create(poc_init(NoEngine, [renderer_type |-> POC_RENDERER_VULKAN,
                                           enable_validation |-> FALSE,
                                           null |-> FALSE], "ok").e,
                       1, "ok", TRUE).e

\* What the last call was and what it returned.
\*   rid, arg, gen  the renderable a renderable call was about, the mesh or
\*                  matrix it was given, the generation of the objects it made
\*   size_changed, caps, frame  for begin_frame and end_frame: whether the window
\*                  had a new size, the surface capabilities, what the call did
Last(op, rid, arg, gen, result, size_changed, caps, frame) ==
    [op |-> op, rid |-> rid, arg |-> arg, gen |-> gen, result |-> result,
     size_changed |-> size_changed, caps |-> caps, frame |-> frame]

InitialSize == <<2, 2>>

\* Surfaces with the given minImageCount values; reported: whether the
\* surface dictates the extent (currentExtent is the window's size) or
\* leaves it to the swapchain (currentExtent is the special value)
InitOver(min_counts, reported_modes) ==
    \E min_count \in min_counts, reported \in reported_modes :
        \E caps \in {SurfaceCaps(IF reported THEN InitialSize ELSE UndefinedExtent, min_count)} :
        \E s \in {vulkan_context_create(caps, InitialSize)} :
            /\ ctx = s.c
            /\ dev = s.d
            /\ robj = [r \in RenderableIds |-> FreedRenderable]
            /\ surface = caps
            /\ window_size = InitialSize
            /\ phase = "Idle"
            /\ last = Last("create_context", 0, 0, 0, POC_RESULT_SUCCESS, FALSE, caps, NoFrameObs)
            /\ fault = "none"
            /\ engine = RunningEngine

Init == InitOver(MinImageCounts, {FALSE})

(***************************************************************************)
(* The environment's steps                                                 *)
(***************************************************************************)
\* the user resizes or minimises the window
WindowResize ==
    /\ fault = "none"
    /\ \E size \in WindowSizes \ {window_size} : window_size' = size
    /\ UNCHANGED <<engine, ctx, robj, dev, surface, phase, last, fault>>

\* a surface that reports its extent catches up with the window
SurfaceResize ==
    /\ fault = "none"
    /\ surface.currentExtent # UndefinedExtent
    /\ window_size # NoExtent
    /\ surface.currentExtent # window_size
    /\ surface' = [surface EXCEPT !.currentExtent = window_size]
    /\ UNCHANGED <<engine, ctx, robj, dev, window_size, phase, last, fault>>

\* the GPU finishes the oldest pending batch and signals its fence
GpuComplete ==
    /\ fault = "none"
    /\ dev.queue # <<>>
    /\ dev' = [dev EXCEPT !.queue = Tail(@), !.fence_signaled[Head(dev.queue).fence] = TRUE]
    /\ UNCHANGED <<engine, ctx, robj, surface, window_size, phase, last, fault>>

(***************************************************************************)
(* The application's calls                                                 *)
(***************************************************************************)
BeginFrameWith(in) ==
    /\ fault = "none"
    /\ phase = "Idle"
    /\ \E s \in {vulkan_context_begin_frame(ctx, robj, dev, surface, window_size, in)} :
           /\ ctx' = s.c
           /\ dev' = s.d
           /\ fault' = s.f
           /\ phase' = IF s.f = "none" /\ s.r = POC_RESULT_SUCCESS THEN "Recorded" ELSE "Idle"
           /\ last' = Last("begin_frame", 0, 0, 0, s.r, window_size # ctx.last_known, surface, s.obs)
    /\ UNCHANGED <<engine, robj, surface, window_size>>

AcquireResults ==
    {VK_SUCCESS, VK_SUBOPTIMAL_KHR, VK_ERROR_OUT_OF_DATE_KHR, VK_ERROR_SURFACE_LOST_KHR}

\* whether the size check at the head of begin_frame will recreate
ResizePending == window_size # ctx.swapchain_extent
                    /\ (ctx.needs_swapchain_recreation \/ window_size # ctx.last_known)

FirstFailPoints(fps) == IF ResizePending THEN fps ELSE {NoFail}

\* the acquisition after a recreation; its result matters only when the
\* recreation succeeded, the image choice only when an image is handed out
AcquireInputs(fp, acqs) ==
    IF fp # NoFail
    THEN {<<fp, VK_SUCCESS, 0>>}
    ELSE {<<fp, acq, img>> : acq \in acqs, img \in 0 .. (swap_image_count(surface) - 1)}
             \ {<<fp, acq, img>> : acq \in {a \in acqs : ~Usable(a)},
                                   img \in 1 .. (swap_image_count(surface) - 1)}

\* begin_frame with the results in acqs and the recreation failures in fps;
\* the inputs of the retry matter only when the first acquisition is out of date
BeginFrameOver(fps, acqs) ==
    \E fp1 \in FirstFailPoints(fps) :
        \E a1 \in AcquireInputs(fp1, acqs) :
            IF fp1 = NoFail /\ a1[2] = VK_ERROR_OUT_OF_DATE_KHR
            THEN \E fp2 \in fps :
                     \E a2 \in AcquireInputs(fp2, acqs) :
                         BeginFrameWith(FrameInput(fp1, a1[2], a1[3], fp2, a2[2], a2[3]))
            ELSE BeginFrameWith(FrameInput(fp1, a1[2], a1[3], NoFail, VK_SUCCESS, 0))

\* every driver result, recreations that succeed
BeginFrame == BeginFrameOver({NoFail}, AcquireResults)

\* recreations that may fail at any step
BeginFrameFailing ==
    BeginFrameOver(FailPoints(swap_image_count(surface)), {VK_SUCCESS, VK_ERROR_OUT_OF_DATE_KHR})

\* a driver that reports no error and hands the images out in turn
BeginFrameInOrder ==
    BeginFrameWith(FrameInput(NoFail, VK_SUCCESS,
                              (ctx.current_image_index + 1) % swap_image_count(surface),
                              NoFail, VK_SUCCESS, 0))

EndFrameWith(present, fp) ==
    /\ fault = "none"
    /\ phase = "Recorded"
    /\ \E s \in {vulkan_context_end_frame(ctx, dev, surface, window_size, present, fp)} :
           /\ ctx' = s.c
           /\ dev' = s.d
           /\ fault' = s.f
           /\ last' = Last("end_frame", 0, 0, 0, s.r, FALSE, surface,
                           [FrameObs(s.recreated, 0, <<present>>, s.presented.image,
                                     <<>>, {})
                               EXCEPT !.semaphores = <<s.presented.wait>>])
    /\ phase' = "Idle"
    /\ UNCHANGED <<engine, robj, surface, window_size>>

EndFrameOver(fps, results) ==
    \E present \in results :
        IF present \in {VK_ERROR_OUT_OF_DATE_KHR, VK_SUBOPTIMAL_KHR}
        THEN \E fp \in fps : EndFrameWith(present, fp)
        ELSE EndFrameWith(present, NoFail)

EndFrame == EndFrameOver({NoFail}, AcquireResults)

EndFrameFailing ==
    EndFrameOver(FailPoints(swap_image_count(surface)), {VK_SUCCESS, VK_ERROR_OUT_OF_DATE_KHR})

EndFrameSteady == EndFrameOver({NoFail}, {VK_SUCCESS})

\* The frame loop under resizes and every driver result.
Next == WindowResize \/ GpuComplete \/ BeginFrame \/ EndFrame

Spec == Init /\ [][Next]_vars

\* The frame loop when swapchain recreation can fail.
NextFailing == WindowResize \/ GpuComplete \/ BeginFrameFailing \/ EndFrameFailing

InitFailing == InitOver({1}, {FALSE})

SpecFailing == InitFailing /\ [][NextFailing]_vars

\* The frame loop on surfaces of both kinds, the driver reporting no error
\* other than an out-of-date swapchain.
BeginFrameStale == BeginFrameOver({NoFail}, {VK_SUCCESS, VK_ERROR_OUT_OF_DATE_KHR})
EndFrameStale == EndFrameOver({NoFail}, {VK_SUCCESS, VK_ERROR_OUT_OF_DATE_KHR})

InitSurface == InitOver({1}, BOOLEAN)

NextSurface == WindowResize \/ SurfaceResize \/ GpuComplete \/ BeginFrameStale \/ EndFrameStale

SpecSurface == InitSurface /\ [][NextSurface]_vars

(***************************************************************************)
(* The application's calls on renderables                                  *)
(***************************************************************************)
RenderableCall(op, rid, arg, gen, result) ==
    Last(op, rid, arg, gen, result, FALSE, surface, NoFrameObs)

\* poc_context_create_renderable, with its allocations succeeding or not
CreateRenderable ==
    /\ fault = "none"
    /\ FreeRenderableIds(robj, dev) # {}
    /\ \E oom \in OomPoints :
           \E s \in {poc_context_create_renderable(ctx, robj, dev, oom)} :
               /\ ctx' = s.c
               /\ robj' = s.ro
               /\ last' = RenderableCall("create_renderable", s.ret, 0, 0,
                                         IF s.ret = 0 THEN "NULL" ELSE "created")
    /\ UNCHANGED <<engine, dev, surface, window_size, phase, fault>>

Allocated == {rid \in RenderableIds : robj[rid].allocated}

LoadModelWith(rid, mesh, parse_ok, fail, junk, overcommit) ==
    /\ fault = "none"
    /\ FreeGens(robj, dev) # {}
    /\ \E g \in {FreshGen(robj, dev)} :
       \E s \in {poc_renderable_load_model(robj[rid], rid, dev, g, mesh, parse_ok, fail, junk,
                                           overcommit)} :
           /\ robj' = [robj EXCEPT ![rid] = s.r]
           /\ dev' = s.d
           /\ fault' = s.f
           /\ last' = RenderableCall("load_model", rid, mesh, IF parse_ok THEN g ELSE 0, s.res)
    /\ UNCHANGED <<engine, ctx, surface, window_size, phase>>

PoolFull == Cardinality(PoolSets(dev)) >= DescriptorPoolMaxSets

\* a load every allocation of which succeeds, unless the descriptor pool is
\* exhausted and the driver refuses
LoadModel ==
    \E rid \in Allocated, mesh \in Meshes :
        \E overcommit \in (IF PoolFull THEN BOOLEAN ELSE {FALSE}) :
            LoadModelWith(rid, mesh, TRUE, NoLoadFail, VK_NULL_HANDLE, overcommit)

\* a load that fails: the file does not parse, or one Vulkan call fails.
\* Failures are injected while a generation is left over for a later load.
LoadModelFailing ==
    /\ Cardinality(FreeGens(robj, dev)) >= 2
    /\ \E rid \in Allocated, mesh \in Meshes :
           \/ LoadModelWith(rid, mesh, FALSE, NoLoadFail, VK_NULL_HANDLE, FALSE)
           \/ \E fail \in DOMAIN LoadSteps, junk \in JunkHandles :
                  LoadModelWith(rid, mesh, TRUE, fail, junk, FALSE)

\* poc_context_destroy_renderable on a renderable of the context or on NULL
DestroyRenderable ==
    /\ fault = "none"
    /\ \E rid \in Allocated \cup {0} :
           \E s \in {poc_context_destroy_renderable(ctx, robj, dev, rid)} :
               /\ ctx' = s.c
               /\ robj' = s.ro
               /\ dev' = s.d
               /\ fault' = s.f
               /\ last' = RenderableCall("destroy_renderable", rid, 0, 0,
                                         IF s.found THEN "destroyed" ELSE "not_found")
    /\ UNCHANGED <<engine, surface, window_size, phase>>

SetTransform ==
    /\ fault = "none"
    /\ \E rid \in Allocated, m \in Matrices :
           /\ robj' = [robj EXCEPT ![rid] = poc_renderable_set_transform(@, m)]
           /\ last' = RenderableCall("set_transform", rid, m, 0, "void")
    /\ UNCHANGED <<engine, ctx, dev, surface, window_size, phase, fault>>

InitDraw == InitOver({1}, {FALSE})

\* Renderables created, loaded, drawn and destroyed on a driver that
\* reports no error.
NextDraw ==
    \/ CreateRenderable \/ LoadModel \/ DestroyRenderable
    \/ BeginFrameInOrder \/ EndFrameSteady \/ GpuComplete

SpecDraw == InitDraw /\ [][NextDraw]_vars

\* One renderable at a time, with loads that can fail at any step.
CreateOnlyRenderable == ctx.renderable_count = 0 /\ CreateRenderable

NextRes == CreateOnlyRenderable \/ LoadModel \/ LoadModelFailing \/ DestroyRenderable

SpecRes == InitDraw /\ [][NextRes]_vars

(***************************************************************************)
(* Frames in flight                                                        *)
(***************************************************************************)
InFlight == {dev.queue[i] : i \in DOMAIN dev.queue}

\* C1: at most MAX_FRAMES_IN_FLIGHT submitted frames are unfinished at any
\* time, and when begin_frame has returned for frame k, the frame that used
\* the same fence before it (frame k - MAX_FRAMES_IN_FLIGHT) has finished.
C1_FramesInFlightBounded ==
    /\ Len(dev.queue) <= MAX_FRAMES_IN_FLIGHT
    /\ phase = "Recorded" => \A s \in InFlight : s.fence # ctx.current_frame

\* begin_frame returned after its fence wait saw an older frame finish,
\* with the frame submitted just before still executing
C1_Witness ==
    /\ phase = "Recorded"
    /\ last.op = "begin_frame"
    /\ last.frame.waited > 0
    /\ Len(dev.queue) = 1

\* C3: when begin_frame has reset and re-recorded the command buffer of the
\* image it acquired, no unfinished submission executes that command buffer.
C3_NoPendingCommandBufferReset ==
    phase = "Recorded" => \A s \in InFlight : s.cmd # ctx.current_image_index

\* C5: a begin_frame or end_frame whose acquisitions and presentation
\* reported nothing worse than an out-of-date or suboptimal swapchain, and
\* whose recreation succeeded, returns success.
OnlyStale(results) ==
    \A i \in DOMAIN results :
        results[i] \in {VK_SUCCESS, VK_SUBOPTIMAL_KHR, VK_ERROR_OUT_OF_DATE_KHR}

C5_StaleNeverSurfaced ==
    (/\ last.op \in {"begin_frame", "end_frame"}
     /\ fault = "none"
     /\ OnlyStale(last.frame.results)
     /\ last.frame.results # <<>>)
        => last.result = POC_RESULT_SUCCESS

(***************************************************************************)
(* Resizing                                                                *)
(***************************************************************************)
Between(lo, x, hi) == IF x < lo THEN lo ELSE IF x > hi THEN hi ELSE x

\* the extent a surface with capabilities caps allows for a window of size S
AllowedExtent(caps, S) ==
    IF caps.currentExtent # UndefinedExtent
    THEN caps.currentExtent
    ELSE <<Between(caps.minImageExtent[1], S[1], caps.maxImageExtent[1]),
           Between(caps.minImageExtent[2], S[2], caps.maxImageExtent[2])>>

\* a begin_frame that found the window at a new size and returned success
ResizedFrame ==
    /\ last.op = "begin_frame"
    /\ last.result = POC_RESULT_SUCCESS
    /\ fault = "none"
    /\ last.size_changed

AllExtentsAre(E) ==
    /\ ctx.swapchain_extent = E
    /\ ctx.depth.valid /\ ctx.depth.extent = E
    /\ ctx.framebuffers # <<>>
    /\ \A i \in DOMAIN ctx.framebuffers :
           ctx.framebuffers[i].valid /\ ctx.framebuffers[i].extent = E

C6_UsableSwapchainAfterRecreation ==
    (last.op \in {"begin_frame", "end_frame"} /\ last.frame.recreated > 0) =>
        /\ ctx.swapchain \in dev.live_swapchains
        /\ ctx.swapchain_image_count > 0 /\ ctx.swapchain_image_views # <<>>
        /\ ctx.framebuffers # <<>>

(***************************************************************************)
(* Renderables                                                             *)
(***************************************************************************)
\* C2: when begin_frame has written the uniform buffers of the renderables
\* it draws, no unfinished submission reads any of those buffers.
C2_NoUniformWriteWhileRead ==
    (phase = "Recorded" /\ last.op = "begin_frame") =>
        \A s \in InFlight : s.reads \cap last.frame.ubo_writes = {}

OwnedBy(rid) == {o \in Live(dev) : dev.objects[o].owner = rid}

\* C7: after destroy_renderable of a renderable of the context, the
\* renderable is gone from the collection and nothing allocated for it
\* (buffers, memories, binding set) is still allocated.
C7_DestroyReleasesEverything ==
    (last.op = "destroy_renderable" /\ last.result = "destroyed" /\ fault = "none") =>
        /\ \A i \in DOMAIN ctx.renderables : ctx.renderables[i] # last.rid
        /\ OwnedBy(last.rid) = {}

BufferSet(g) ==
    {Obj(kind, g) : kind \in {"vertex_buffer", "vertex_memory", "index_buffer", "index_memory",
                              "uniform_buffer", "uniform_memory", "descriptor_set"}}

\* C8: after a successful load the renderable's active data and counts are
\* those of the mesh just loaded, and what is allocated for it is exactly
\* the one buffer set this load made: nothing of an earlier load remains.
C8_ReloadLeavesOneBufferSet ==
    (last.op = "load_model" /\ last.result = POC_RESULT_SUCCESS /\ fault = "none") =>
        /\ robj[last.rid].vertex_count = last.arg /\ robj[last.rid].index_count = last.arg
        /\ dev.objects[Obj("vertex_buffer", robj[last.rid].vertex_buffer)].data = last.arg
        /\ dev.objects[Obj("index_buffer", robj[last.rid].index_buffer)].data = last.arg
        /\ OwnedBy(last.rid) = BufferSet(last.gen)

\* C9: after a load that returned an error, nothing that call allocated is
\* still allocated, and the renderable is not drawable: begin_frame would
\* record no draw for it.
C9_FailedLoadReleasesAndDisables ==
    (last.op = "load_model" /\ last.result # POC_RESULT_SUCCESS /\ fault = "none") =>
        /\ \A o \in Live(dev) : last.gen = 0 \/ o[2] # last.gen
        /\ \A i \in DOMAIN DrawList(ctx, robj) : DrawList(ctx, robj)[i] # last.rid

Count(seq, x) == Cardinality({i \in DOMAIN seq : seq[i] = x})

\* C10: a successful begin_frame records one draw for each renderable of
\* the collection that has both a vertex and an index buffer, none for any
\* other, in collection order; two loaded renderables give two draws. An
\* end_frame whose presentation succeeds returns success.
C10_OneDrawPerLoadedRenderable ==
    /\ (last.op = "end_frame" /\ last.frame.results = <<VK_SUCCESS>> /\ fault = "none") =>
           last.result = POC_RESULT_SUCCESS
    /\ (last.op = "begin_frame" /\ last.result = POC_RESULT_SUCCESS /\ fault = "none") =>
        LET draws == last.frame.draws
            loaded(rid) == /\ \E i \in DOMAIN ctx.renderables : ctx.renderables[i] = rid
                           /\ robj[rid].vertex_buffer # VK_NULL_HANDLE
                           /\ robj[rid].index_buffer # VK_NULL_HANDLE
        IN  /\ \A rid \in RenderableIds : Count(draws, rid) = IF loaded(rid) THEN 1 ELSE 0
            /\ \A i, j \in DOMAIN draws :
                   i < j => Position(ctx.renderables, draws[i]) < Position(ctx.renderables, draws[j])
            /\ Len(draws) = Cardinality({rid \in RenderableIds : loaded(rid)})

\* the third frame or a later one, with two renderables holding different
\* meshes: two draws, and the end_frame calls before it returned success
C10_Witness ==
    /\ last.op = "begin_frame" /\ last.result = POC_RESULT_SUCCESS /\ fault = "none"
    /\ Len(last.frame.draws) = 2
    /\ robj[last.frame.draws[1]].vertex_count # robj[last.frame.draws[2]].vertex_count
    /\ last.frame.waited > 0

(***************************************************************************)
(* Transforms                                                              *)
(***************************************************************************)
\* Renderables created, loaded and given transforms, and the frames that
\* draw them, on a driver that reports no error.
NextTransform ==
    \/ CreateRenderable \/ LoadModel \/ SetTransform
    \/ BeginFrameInOrder \/ EndFrameSteady \/ GpuComplete

SpecTransform == InitDraw /\ [][NextTransform]_vars

\* a step that is a set_transform call
SetTransformStep == last'.op = "set_transform" /\ (last' # last \/ robj' # robj)
\* a step that is a begin_frame call returning success
BeginFrameStep == phase = "Idle" /\ phase' = "Recorded"

\* the matrix held by the uniform buffer the descriptor set of r points at
UniformMatrix(d, r) == d.objects[Obj("uniform_buffer", r.uniform_buffer)].data

\* C11: set_transform(r, M) makes M the model matrix of r and changes no
\* other renderable, so the last call on r wins; a successful begin_frame
\* leaves in the uniform buffer of every renderable it draws exactly the
\* model matrix the renderable had when the frame began.
C11_TransformReachesUniformBuffer ==
    [][/\ SetTransformStep =>
              robj' = [robj EXCEPT ![last'.rid].model_matrix = last'.arg]
       /\ BeginFrameStep =>
              /\ robj' = robj
              /\ \A i \in DOMAIN last'.frame.draws :
                     UniformMatrix(dev', robj[last'.frame.draws[i]])
                         = robj[last'.frame.draws[i]].model_matrix]_vars

\* a frame has drawn two renderables with different transforms, one of them
\* set by set_transform, and each uniform buffer holds its renderable's
C11_Witness ==
    /\ phase = "Recorded" /\ last.op = "begin_frame" /\ fault = "none"
    /\ Len(last.frame.draws) = 2
    /\ UniformMatrix(dev, robj[last.frame.draws[1]]) # IdentityMatrix
    /\ UniformMatrix(dev, robj[last.frame.draws[2]]) = IdentityMatrix

(***************************************************************************)
(* Context creation                                                        *)
(***************************************************************************)
\* A context created on a window of any of the sizes, minimised included,
\* on a surface that leaves the extent to the swapchain or reports its own,
\* which need not be the size the window system has told the window yet.
InitCreate ==
    \E size \in WindowSizes, current \in {UndefinedExtent} \cup (WindowSizes \ {NoExtent}) :
    \E caps \in {SurfaceCaps(current, 1)} :
    \E s \in {vulkan_context_create(caps, size)} :
        /\ ctx = s.c
        /\ dev = s.d
        /\ robj = [r \in RenderableIds |-> FreedRenderable]
        /\ surface = caps
        /\ window_size = size
        /\ phase = "Idle"
        /\ last = Last("create_context", 0, 0, 0, POC_RESULT_SUCCESS, FALSE, caps, NoFrameObs)
        /\ fault = "none"
        /\ engine = RunningEngine

\* the frame loop of SpecSurface, from any such creation
SpecCreate == InitCreate /\ [][NextSurface]_vars

\* C12 (as the code has it): the swapchain extent of a created context is
\* what the surface allows for the window's framebuffer size at creation:
\* the surface's current extent if it reports one, else that size clamped
\* component-wise to the minimum and maximum image extent.
C12_CreatedExtentAllowed ==
    last.op = "create_context" =>
        ctx.swapchain_extent = AllowedExtent(last.caps, ctx.last_known)

\* a context created on a window whose size the surface does not allow
C12_Witness ==
    /\ last.op = "create_context"
    /\ last.caps.currentExtent = UndefinedExtent
    /\ ctx.swapchain_extent # ctx.last_known

\* C12 (as the spec has it): the extent is the clamped window size.
C12_CreatedExtentClamped ==
    last.op = "create_context" =>
        ctx.swapchain_extent =
            <<Between(last.caps.minImageExtent[1], ctx.last_known[1], last.caps.maxImageExtent[1]),
              Between(last.caps.minImageExtent[2], ctx.last_known[2], last.caps.maxImageExtent[2])>>

\* ---------------------------------------------------------------------
\* Depth buffer and framebuffers against the swapchain

\* The call that just returned created the context, or recreated the
\* swapchain and returned success
SwapchainBuilt ==
    /\ fault = "none"
    /\ \/ last.op = "create_context"
       \/ /\ last.op \in {"begin_frame", "end_frame"}
          /\ last.frame.recreated > 0
          /\ last.result = POC_RESULT_SUCCESS

\* C13: after every successful create_context and every successful
\* recreation there are as many framebuffers as swapchain images,
\* framebuffer i is attached to image view i of the current swapchain and to
\* the current depth view, and the depth image and every framebuffer have
\* the swapchain extent
C13_FramebuffersNeverStale ==
    SwapchainBuilt =>
        /\ ctx.framebuffer_count = ctx.swapchain_image_count
        /\ Len(ctx.framebuffers) = ctx.swapchain_image_count
        /\ Len(ctx.swapchain_image_views) = ctx.swapchain_image_count
        /\ ctx.depth.valid
        /\ ctx.depth.extent = ctx.swapchain_extent
        /\ \A i \in 1 .. ctx.swapchain_image_count :
              /\ ctx.swapchain_image_views[i].valid
              /\ ctx.swapchain_image_views[i].sc = ctx.swapchain
              /\ ctx.swapchain_image_views[i].index = i
              /\ ctx.framebuffers[i].valid
              /\ ctx.framebuffers[i].sc = ctx.swapchain
              /\ ctx.framebuffers[i].view = i
              /\ ctx.framebuffers[i].depth = ctx.depth.handle
              /\ ctx.framebuffers[i].extent = ctx.swapchain_extent

\* A recreation has succeeded: the swapchain, the depth view and the extent
\* are not the ones the context was created with
C13_Witness ==
    /\ SwapchainBuilt
    /\ last.op \in {"begin_frame", "end_frame"}
    /\ ctx.swapchain_extent # InitialSize
    /\ ctx.depth.handle = ctx.swapchain
    /\ ctx.swapchain # 1

(***************************************************************************)
(* The engine's life: init, contexts for two windows, shutdown             *)
(***************************************************************************)
\* An engine call: what was called, with what, and what it returned. c is the
\* context pointer the call returned or was given; the result of a call that
\* returns a pointer is success when the pointer is not null.
EngineCall(op, arg, c, result) ==
    Last(op, c, arg, 0, result, FALSE, surface, NoFrameObs)

Returned(c) == IF c # NULL THEN POC_RESULT_SUCCESS ELSE POC_RESULT_ERROR_INIT_FAILED

InitLifecycle ==
    /\ ctx = ZeroContext(NoExtent)
    /\ dev = NoDevice
    /\ robj = [r \in RenderableIds |-> FreedRenderable]
    /\ surface = SurfaceCaps(UndefinedExtent, 1)
    /\ window_size = InitialSize
    /\ phase = "Idle"
    /\ last = EngineCall("none", NULL, NULL, POC_RESULT_SUCCESS)
    /\ fault = "none"
    /\ engine = NoEngine

PocInit ==
    /\ fault = "none"
    /\ engine.g_initialized \/ engine.driver.instances_created < MaxInstances
    /\ \E config \in Configs \cup {NullConfig}, outcome \in InitOutcomes :
       \E s \in {poc_init(engine, config, outcome)} :
           /\ engine' = s.e
           /\ last' = EngineCall("poc_init", config, NULL, s.r)
    /\ UNCHANGED <<ctx, robj, dev, surface, window_size, phase, fault>>

\* An application that shuts the engine down whenever it likes
ShutdownAnytime(e) == TRUE

\* poc_shutdown "must be called after destroying all contexts"
ShutdownValid(e) == LiveContexts(e) = {}

PocShutdown ==
    /\ fault = "none"
    /\ ShutdownValid(engine)
    /\ engine' = poc_shutdown(engine)
    /\ last' = EngineCall("poc_shutdown", NULL, NULL, POC_RESULT_SUCCESS)
    /\ UNCHANGED <<ctx, robj, dev, surface, window_size, phase, fault>>

\* the window is one of the application's or null; the returned pointer is
\* last.result
PocContextCreate ==
    /\ fault = "none"
    /\ ~engine.g_initialized \/ engine.driver.devices_created < MaxDevices
    /\ \E window \in Windows \cup {NULL}, outcome \in CreateOutcomes, kept \in BOOLEAN :
       \E s \in {poc_context_create(engine, window, outcome, kept)} :
           /\ engine' = s.e
           /\ last' = EngineCall("poc_context_create", window, s.ctx, Returned(s.ctx))
    /\ UNCHANGED <<ctx, robj, dev, surface, window_size, phase, fault>>

\* the pointer is one poc_context_create returned and that was not destroyed
\* since, or null
PocContextDestroy ==
    /\ fault = "none"
    /\ \E c \in LiveContexts(engine) \cup {NULL} :
       \E s \in {poc_context_destroy(engine, c)} :
           /\ engine' = s.e
           /\ fault' = s.f
           /\ last' = EngineCall("poc_context_destroy", NULL, c, POC_RESULT_SUCCESS)
    /\ UNCHANGED <<ctx, robj, dev, surface, window_size, phase>>

NextLifecycle == PocInit \/ PocShutdown \/ PocContextCreate \/ PocContextDestroy

SpecLifecycle == InitLifecycle /\ [][NextLifecycle]_vars

\* ---------------------------------------------------------------------
\* The steps of the engine's life, by the call that was made
InitStep == last'.op = "poc_init"
ShutdownStep == last'.op = "poc_shutdown"
CreateContextStep == last'.op = "poc_context_create"

\* C14 (as stated): the device is created by init and only borrowed by
\* create_context, so creating a second context leaves the device handle the
\* existing contexts use unchanged
C14_CreateContextKeepsDevice ==
    [][(CreateContextStep /\ last'.rid # NULL /\ LiveContexts(engine) # {})
           => engine'.g_vk_state.device = engine.g_vk_state.device]_vars

C16_InitIdempotent ==
    [][(InitStep /\ engine.g_initialized)
           => /\ last'.result = POC_RESULT_SUCCESS
              /\ engine' = engine
              /\ UNCHANGED <<ctx, robj, dev, surface, fault>>]_vars

\* A second init asked for another renderer, or passed no config, and
\* returned success on an engine that has a context
C16_Witness ==
    /\ last.op = "poc_init"
    /\ last.result = POC_RESULT_SUCCESS
    /\ last.arg.null \/ last.arg.renderer_type # engine.g_current_renderer
    /\ engine.g_initialized
    /\ LiveContexts(engine) # {}

\* C17: create_context returns null while the engine is not initialized;
\* shutdown of an uninitialized engine changes nothing; shutdown leaves the
\* engine uninitialized, a failed init too, and only a successful init makes
\* it initialized
C17_UninitializedEngine ==
    [][/\ (CreateContextStep /\ ~engine.g_initialized)
              => last'.rid = NULL /\ engine' = engine
       /\ (ShutdownStep /\ ~engine.g_initialized) => engine' = engine
       /\ ShutdownStep => ~engine'.g_initialized
       /\ (InitStep /\ last'.result # POC_RESULT_SUCCESS) => ~engine'.g_initialized
       /\ (~engine.g_initialized /\ engine'.g_initialized)
              => InitStep /\ last'.result = POC_RESULT_SUCCESS]_vars

\* create_context was refused for a window after an init that failed with
\* the Vulkan instance already created
C17_Witness ==
    /\ last.op = "poc_context_create"
    /\ last.arg # NULL
    /\ last.rid = NULL
    /\ ~engine.g_initialized
    /\ engine.g_vk_state.instance # VK_NULL_HANDLE

(***************************************************************************)
(* Misuse: null contexts, null and stale renderables                       *)
(***************************************************************************)
\* The calls of src/src/poc_engine.c and poc_context_destroy_renderable
\* that test their context for null before anything else
NullContextCalls ==
    {"poc_context_begin_frame", "poc_context_end_frame", "poc_context_clear_color",
     "poc_context_destroy", "poc_context_destroy_renderable"}

\* what such a call returns when the context is null (success stands for
\* the return of a void function)
null_context_result(op) ==
    IF op \in {"poc_context_begin_frame", "poc_context_end_frame"}
    THEN POC_RESULT_ERROR_INIT_FAILED
    ELSE POC_RESULT_SUCCESS

\* a call with a null context; destroy_renderable is given any renderable
NullContextCall ==
    /\ fault = "none"
    /\ \E op \in NullContextCalls :
       \E r \in IF op = "poc_context_destroy_renderable" THEN RenderableIds ELSE {NULL} :
           /\ last' = EngineCall(op, r, NULL, null_context_result(op))
           /\ engine' = IF op = "poc_context_destroy"
                        THEN poc_context_destroy(engine, NULL).e
                        ELSE engine
    /\ UNCHANGED <<ctx, robj, dev, surface, window_size, phase, fault>>

\* destroy_renderable with a pointer that was destroyed before, or that no
\* create_renderable ever returned
DestroyStaleRenderable ==
    /\ fault = "none"
    /\ \E rid \in RenderableIds \ Allocated :
           \E s \in {poc_context_destroy_renderable(ctx, robj, dev, rid)} :
               /\ ctx' = s.c
               /\ robj' = s.ro
               /\ dev' = s.d
               /\ fault' = s.f
               /\ last' = RenderableCall("destroy_renderable", rid, 0, 0,
                                         IF s.found THEN "destroyed" ELSE "not_found")
    /\ UNCHANGED <<engine, surface, window_size, phase>>

NextMisuse ==
    \/ CreateRenderable \/ LoadModel \/ DestroyRenderable
    \/ DestroyStaleRenderable \/ NullContextCall
    \/ BeginFrameInOrder \/ EndFrameSteady \/ GpuComplete

SpecMisuse == InitDraw /\ [][NextMisuse]_vars

\* The call just made was given a null context
NullContextStep == last' # last /\ last'.op \in NullContextCalls /\ last'.rid = NULL

\* The call just made was destroy_renderable of null or of a renderable
\* that is not in the context's array
DestroyMissingStep ==
    /\ last' # last
    /\ last'.op = "destroy_renderable"
    /\ last'.rid = 0 \/ \A i \in DOMAIN ctx.renderables : ctx.renderables[i] # last'.rid

\* C18: destroy_renderable with a null context, a null renderable or a
\* renderable that is not in the array changes neither the array nor any
\* allocation; begin_frame and end_frame with a null context return an
\* error; destroy_context and clear_color with null do nothing
C18_MisuseIsNoOp ==
    [][/\ DestroyMissingStep => UNCHANGED <<ctx, robj, dev, engine, phase, fault>>
       /\ NullContextStep =>
              /\ UNCHANGED <<ctx, robj, dev, engine, phase, fault>>
              /\ last'.op \in {"poc_context_begin_frame", "poc_context_end_frame"}
                     => last'.result # POC_RESULT_SUCCESS]_vars

\* A renderable with buffers was destroyed, and destroyed a second time
\* while another renderable is in the array
C18_Witness ==
    /\ last.op = "destroy_renderable"
    /\ last.rid # 0
    /\ ~robj[last.rid].allocated
    /\ ctx.renderable_count = 1
    /\ \E o \in DOMAIN dev.objects : TRUE

(***************************************************************************)
(* Removal from the renderable array                                       *)
(***************************************************************************)
\* Bound of the exploration: renderables in the array at the start
MaxArrayLen == 3

\* The arrays create_renderable can have built: up to MaxArrayLen
\* renderables, in the order of their creation, at whatever addresses malloc
\* returned
RenderableArrays ==
    UNION {{seq \in [1 .. n -> 1 .. MaxArrayLen] :
               \A i, j \in 1 .. n : i # j => seq[i] # seq[j]} : n \in 0 .. MaxArrayLen}

\* each renderable was given some transform
InitRemove ==
    \E seq \in RenderableArrays, m \in [1 .. MaxArrayLen -> Matrices] :
    \E s \in {vulkan_context_create(SurfaceCaps(UndefinedExtent, 1), InitialSize)} :
        /\ ctx = [s.c EXCEPT !.renderables = seq, !.renderable_count = Len(seq)]
        /\ dev = s.d
        /\ robj = [r \in 1 .. MaxArrayLen |->
                      IF \E i \in DOMAIN seq : seq[i] = r
                      THEN poc_renderable_set_transform(NewRenderable, m[r])
                      ELSE FreedRenderable]
        /\ surface = SurfaceCaps(UndefinedExtent, 1)
        /\ window_size = InitialSize
        /\ phase = "Idle"
        /\ last = RenderableCall("create_renderable", 0, 0, 0, "created")
        /\ fault = "none"
        /\ engine = RunningEngine

\* destroy_renderable of any renderable pointer or null; last.arg is the
\* index the search found (from 1, 0 when it found none)
DestroyAnyRenderable ==
    /\ fault = "none"
    /\ \E rid \in DOMAIN robj \cup {0} :
           \E s \in {poc_context_destroy_renderable(ctx, robj, dev, rid)} :
               /\ ctx' = s.c
               /\ robj' = s.ro
               /\ dev' = s.d
               /\ fault' = s.f
               /\ last' = RenderableCall("destroy_renderable", rid,
                                         Position(ctx.renderables, rid), 0,
                                         IF s.found THEN "destroyed" ELSE "not_found")
    /\ UNCHANGED <<engine, surface, window_size, phase>>

SpecRemove == InitRemove /\ [][DestroyAnyRenderable]_vars

\* C19: destroy_renderable of the renderable at position i of the array
\* leaves the entries before i and the entries after i, in their order, one
\* entry fewer, and every other renderable as it was
C19_RemovesExactlyOneKeepsOrder ==
    [][\A i \in DOMAIN ctx.renderables :
           (last'.op = "destroy_renderable" /\ ctx.renderables[i] = last'.rid)
               => /\ ctx'.renderables = SubSeq(ctx.renderables, 1, i - 1)
                                          \o SubSeq(ctx.renderables, i + 1, Len(ctx.renderables))
                  /\ ctx'.renderable_count = ctx.renderable_count - 1
                  /\ ctx'.renderable_count = Len(ctx'.renderables)
                  /\ \A r \in DOMAIN robj : r # last'.rid => robj'[r] = robj[r]]_vars

\* The middle one of three renderables was destroyed
C19_Witness ==
    /\ last.op = "destroy_renderable"
    /\ last.result = "destroyed"
    /\ last.arg = 2
    /\ ctx.renderable_count = 2

\* ---------------------------------------------------------------------
\* The frame counter

\* end_frame has just returned: the only step from Recorded to Idle
EndFrameStep == phase = "Recorded" /\ phase' = "Idle"

\* What end_frame submits when it is called in the current state
SubmittedBatch ==
    Submission(ctx.current_frame, ctx.current_image_index,
               ctx.current_acquire_semaphore_index, ctx.current_image_index,
               dev.command_buffers[ctx.current_image_index + 1])

\* C20: current_frame stays in [0, MAX_FRAMES_IN_FLIGHT); only an end_frame
\* that returns success changes it, to the next slot, and an end_frame that
\* returns an error leaves it; a successful begin_frame stores the image it
\* acquired and its semaphore index, nothing changes them before end_frame,
\* and end_frame submits with them
C20_FrameCounterCycle ==
    /\ [](ctx.current_frame \in 0 .. (MAX_FRAMES_IN_FLIGHT - 1))
    /\ [][/\ ctx'.current_frame # ctx.current_frame
                => EndFrameStep /\ last'.result = POC_RESULT_SUCCESS
          /\ (EndFrameStep /\ fault' = "none")
                => ctx'.current_frame =
                       IF last'.result = POC_RESULT_SUCCESS
                       THEN (ctx.current_frame + 1) % MAX_FRAMES_IN_FLIGHT
                       ELSE ctx.current_frame
          /\ (BeginFrameStep /\ fault' = "none")
                => /\ last'.op = "begin_frame" /\ last'.result = POC_RESULT_SUCCESS
                   /\ ctx'.current_image_index = last'.frame.image
                   /\ ctx'.current_acquire_semaphore_index =
                          ctx.current_frame % ctx'.swapchain_image_count
          /\ (phase = "Recorded" /\ phase' = "Recorded")
                => /\ ctx'.current_image_index = ctx.current_image_index
                   /\ ctx'.current_acquire_semaphore_index = ctx.current_acquire_semaphore_index
          /\ (EndFrameStep /\ fault' = "none" /\ last'.frame.recreated = 0)
                => dev'.queue = Append(dev.queue, SubmittedBatch)]_vars

\* An end_frame returned an error in the second frame slot and left the
\* counter there
C20_Witness ==
    /\ last.op = "end_frame"
    /\ last.result # POC_RESULT_SUCCESS
    /\ fault = "none"
    /\ ctx.current_frame = 1
    /\ dev.queue # <<>>

(***************************************************************************)
(* Tearing the context down                                                *)
(***************************************************************************)
\* the loop of vulkan_context_destroy over ctx->renderables: the buffers and
\* memories of each entry, then the record
RECURSIVE release_renderables(_, _, _)
release_renderables(rids, ro, d) ==
    IF rids = <<>>
    THEN [ro |-> ro, d |-> d, f |-> "none"]
    ELSE With(release_renderables(Tail(rids),
                                  [ro EXCEPT ![Head(rids)] = FreedRenderable],
                                  ReleaseBuffers(ro[Head(rids)], d)), LAMBDA s :
         [s EXCEPT !.f = FirstFault(ReleaseFault(ro[Head(rids)], d), s.f)])

\* the two semaphore loops of vulkan_context_destroy run to the current
\* swapchain_image_count; allocated is the length the arrays were given by
\* create_sync_objects
destroy_semaphores(c, allocated) ==
    [destroyed |-> Min(c.swapchain_image_count, allocated),
     f |-> IF c.swapchain_image_count > allocated THEN "out_of_bounds" ELSE "none"]

\* vulkan_context_destroy on the objects of the context. device is
\* g_vk_state.device, own the device the context was created on: the wait
\* drains the queue of the device it is given.
\*   pending    batches still executing when the first object is destroyed
\*   created    image-available semaphores create_sync_objects made
\*   destroyed  image-available semaphores destroyed; the render-finished
\*              semaphores have the same two counts
vulkan_context_destroy_objects(c, ro, d, device, own) ==
    With(IF device # VK_NULL_HANDLE /\ device = own THEN vkDeviceWaitIdle(d) ELSE d,
         LAMBDA d1 :
    With(destroy_semaphores(c, Len(d.command_buffers)), LAMBDA sems :
    With(cleanup_pipeline_dependent_resources(c), LAMBDA s2 :
    With(cleanup_swapchain_images(s2.c), LAMBDA s3 :
    With(s3.c.swapchain # VK_NULL_HANDLE /\ s3.c.swapchain \notin d1.live_swapchains,
         LAMBDA stale :
    With([d1 EXCEPT !.live_swapchains = @ \ {s3.c.swapchain},
                    !.command_buffers = <<>>,
                    !.objects = DelObjs(@, PoolSets(d1))], LAMBDA d4 :
    With(release_renderables(SubSeq(c.renderables, 1, c.renderable_count), ro, d4),
         LAMBDA s5 :
        [c |-> ZeroContext(NoExtent),
         ro |-> s5.ro,
         d |-> s5.d,
         pending |-> Len(d1.queue),
         created |-> Len(d.command_buffers),
         destroyed |-> sems.destroyed,
         f |-> FirstFault(sems.f, FirstFault(s2.f, FirstFault(s3.f,
                   FirstFault(IF stale THEN "destroyed_handle" ELSE "none", s5.f))))])))))))

ContextLive == engine.contexts[1].live

\* poc_context_destroy on the context of the frame loop, between two frames
DestroyContext ==
    /\ fault = "none"
    /\ phase = "Idle"
    /\ ContextLive
    /\ \E s \in {poc_context_destroy(engine, 1)} :
       \E t \in {vulkan_context_destroy_objects(ctx, robj, dev, engine.g_vk_state.device,
                                                engine.contexts[1].device)} :
           /\ engine' = s.e
           /\ ctx' = t.c
           /\ robj' = t.ro
           /\ dev' = t.d
           /\ fault' = FirstFault(s.f, t.f)
           /\ last' = Last("destroy_context", 0,
                           [pending |-> t.pending, created |-> t.created,
                            destroyed |-> t.destroyed],
                           0, "void", FALSE, surface, NoFrameObs)
    /\ phase' = "Destroyed"
    /\ UNCHANGED <<surface, window_size>>

\* poc_context_create for the application's second window
SecondContext ==
    /\ fault = "none"
    /\ ContextLive
    /\ ~engine.contexts[2].live
    /\ engine.driver.devices_created < MaxDevices
    /\ \E s \in {poc_context_create(engine, 2, "ok", TRUE)} :
           /\ engine' = s.e
           /\ last' = EngineCall("poc_context_create", 2, s.ctx, Returned(s.ctx))
    /\ UNCHANGED <<ctx, robj, dev, surface, window_size, phase, fault>>

\* the first window's context is used while g_vk_state holds its device
OwnDevice == ContextLive /\ engine.g_vk_state.device = engine.contexts[1].device

\* Renderables and frames on the first window, a context for the second
\* window, and the destruction of the first one.
NextTeardown ==
    \/ OwnDevice /\ CreateRenderable
    \/ OwnDevice /\ LoadModel
    \/ OwnDevice /\ DestroyRenderable
    \/ OwnDevice /\ BeginFrameInOrder
    \/ OwnDevice /\ EndFrameSteady
    \/ ContextLive /\ GpuComplete
    \/ SecondContext
    \/ DestroyContext

SpecTeardown == InitDraw /\ [][NextTeardown]_vars

\* C21: when destroy_context has returned, no batch was executing while the
\* objects of the context were destroyed, every renderable of the collection
\* is released (record, buffers and memories) and no object of a renderable
\* is left alive
C21_DestroyContextDrainsAndReleases ==
    last.op = "destroy_context" =>
        /\ last.arg.pending = 0
        /\ \A rid \in RenderableIds : ~robj[rid].allocated
        /\ Live(dev) = {}

(***************************************************************************)
(* The clear color                                                         *)
(***************************************************************************)
\* Components an application passes, in tenths: below 0.0, the two ends of
\* the range, above 1.0
ColorValues == {-5, 0, 10, 15}

vulkan_context_clear_color(c, r, g, b, a) ==
    [c EXCEPT !.clear_color = <<r, g, b, a>>]

\* poc_context_clear_color on the context; the red and the alpha component
\* vary, green and blue are given the same value
ClearColor ==
    /\ fault = "none"
    /\ \E r \in ColorValues, gb \in ColorValues, a \in ColorValues :
           /\ ctx' = vulkan_context_clear_color(ctx, r, gb, gb, a)
           /\ last' = Last("clear_color", 0, <<r, gb, gb, a>>, 0, "void", FALSE, surface,
                           NoFrameObs)
    /\ UNCHANGED <<engine, robj, dev, surface, window_size, phase, fault>>

NextColor == ClearColor \/ BeginFrameInOrder \/ EndFrameSteady \/ GpuComplete

SpecColor == InitDraw /\ [][NextColor]_vars

InUnitRange(color) == \A i \in DOMAIN color : 0 <= color[i] /\ color[i] <= 10

\* C22: every stored clear-color component, and every component of the clear
\* color a begin_frame records, lies within [0.0, 1.0]
C22_ClearColorClamped ==
    /\ InUnitRange(ctx.clear_color)
    /\ last.op = "begin_frame" => InUnitRange(last.frame.clear)

(***************************************************************************)
(* Recreations that change the number of swapchain images                  *)
(***************************************************************************)
\* the surface reports another minImageCount; the next swapchain creation
\* reads it through query_swapchain_support
SurfaceImageCount ==
    /\ fault = "none"
    /\ \E min_count \in MinImageCounts \ {surface.minImageCount} :
           surface' = [surface EXCEPT !.minImageCount = min_count]
    /\ UNCHANGED <<engine, ctx, robj, dev, window_size, phase, last, fault>>

NextImages ==
    \/ ContextLive /\ WindowResize
    \/ ContextLive /\ SurfaceImageCount
    \/ ContextLive /\ GpuComplete
    \/ BeginFrameStale
    \/ EndFrameStale
    \/ DestroyContext

SpecImages == Init /\ [][NextImages]_vars

\* C23: no call reads or writes the semaphore arrays or the command-buffer
\* array past the length they were allocated with, the indices a recorded
\* frame carries are inside them, and destroy_context destroys as many
\* semaphores as create_sync_objects created
C23_ArrayIndicesInBounds ==
    /\ fault # "out_of_bounds"
    /\ phase = "Recorded" =>
           /\ ctx.current_image_index < Len(dev.command_buffers)
           /\ ctx.current_acquire_semaphore_index < Len(dev.command_buffers)
    /\ last.op = "destroy_context" => last.arg.destroyed = last.arg.created

(***************************************************************************)
(* The fence wait at the head of begin_frame                               *)
(***************************************************************************)
\* C24: whenever begin_frame can be called, the fence of the current frame
\* slot is signaled or a pending batch will signal it, so the wait of the
\* next begin_frame returns once the GPU has finished its batches
C24_FenceWaitReturns ==
    (phase = "Idle" /\ fault = "none") => FenceCanSignal(dev, ctx.current_frame)

(***************************************************************************)
(* Buffers of frames in flight                                             *)
(***************************************************************************)
BufferKinds == {"vertex_buffer", "index_buffer", "uniform_buffer"}

\* C25: no call destroys a vertex, index or uniform buffer that a batch
\* pending when the call is made references
C25_NoBufferDestroyedInFlight ==
    [][\A s \in InFlight : \A o \in s.reads :
           (o[1] \in BufferKinds /\ o \in Live(dev)) => o \in Live(dev')]_vars

(***************************************************************************)
(* Descriptor sets taken from the context's pool                           *)
(***************************************************************************)
SetsOf(rid) == {o \in PoolSets(dev) : dev.objects[o].owner = rid}

\* C26: a renderable holds at most one descriptor set of the pool, the pool
\* never has more than maxSets sets allocated, and no load fails
C26_OneSetPerRenderable ==
    /\ \A rid \in RenderableIds : Cardinality(SetsOf(rid)) <= 1
    /\ Cardinality(PoolSets(dev)) <= DescriptorPoolMaxSets
    /\ last.op = "load_model" => last.result = POC_RESULT_SUCCESS

(***************************************************************************)
(* Object lifetimes across failed recreations                              *)
(***************************************************************************)
\* C27: no call hands the driver a handle that was destroyed before, neither
\* to destroy it a second time nor to use it
C27_NoDestroyedHandleUsed == fault # "destroyed_handle"

(***************************************************************************)
(* The semaphore of the acquisition                                        *)
(***************************************************************************)
LastOf(seq) == seq[Len(seq)]

\* C28: every acquisition of a begin_frame, the retry after a recreation
\* included, is given the semaphore current_frame mod N, N being the image
\* count when the slot is chosen; the recorded frame remembers the semaphore
\* of its last acquisition, and the batch end_frame submits waits on it
C28_SubmitWaitsOnAcquireSemaphore ==
    /\ [](phase = "Recorded" =>
             /\ last.op = "begin_frame"
             /\ last.frame.semaphores # <<>>
             /\ ctx.current_acquire_semaphore_index = LastOf(last.frame.semaphores))
    /\ [][/\ (BeginFrameStep /\ fault' = "none") =>
                 /\ Len(last'.frame.semaphores) = Len(last'.frame.results)
                 /\ \A i \in DOMAIN last'.frame.semaphores :
                        last'.frame.semaphores[i] =
                            ctx.current_frame % ctx.swapchain_image_count
          /\ (EndFrameStep /\ fault' = "none" /\ last'.frame.recreated = 0) =>
                 /\ Len(dev'.queue) = Len(dev.queue) + 1
                 /\ LastOf(dev'.queue).wait = LastOf(last.frame.semaphores)]_vars

\* A frame was submitted whose acquisition semaphore is not the one with the
\* index of its image
C28_Witness ==
    /\ last.op = "end_frame"
    /\ last.result = POC_RESULT_SUCCESS
    /\ fault = "none"
    /\ dev.queue # <<>>
    /\ LastOf(dev.queue).wait = 1
    /\ LastOf(dev.queue).cmd # 1

(***************************************************************************)
(* Fencing by frame, signaling by image                                    *)
(***************************************************************************)
\* C29: the batch end_frame submits executes the command buffer of the image
\* the matching begin_frame acquired, signals the render-finished semaphore
\* of that image and carries the fence of the current frame slot; the
\* present waits on the semaphore the batch signals and presents that image
C29_FenceByFrameSignalByImage ==
    [][(EndFrameStep /\ fault' = "none") =>
          /\ last.op = "begin_frame"
          /\ last'.frame.image = last.frame.image
          /\ last'.frame.semaphores = <<last.frame.image>>
          /\ last'.frame.recreated = 0 =>
                 /\ LastOf(dev'.queue).cmd = last.frame.image
                 /\ LastOf(dev'.queue).signal = last.frame.image
                 /\ LastOf(dev'.queue).fence = ctx.current_frame
                 /\ last'.frame.semaphores = <<LastOf(dev'.queue).signal>>
                 /\ dev'.acquired = dev.acquired \ {last.frame.image}]_vars

\* With three images and two frame slots: a frame in slot 0 drew into image 2
C29_Witness ==
    /\ last.op = "end_frame"
    /\ last.result = POC_RESULT_SUCCESS
    /\ fault = "none"
    /\ ctx.swapchain_image_count = 3
    /\ dev.queue # <<>>
    /\ LastOf(dev.queue).fence = 0
    /\ LastOf(dev.queue).signal = 2
    /\ last.frame.semaphores = <<2>>

(***************************************************************************)
(* The retry of a stale acquisition                                        *)
(***************************************************************************)
\* every driver result, recreations that may fail at any step
BeginFrameRetry == BeginFrameOver(FailPoints(swap_image_count(surface)), AcquireResults)

\* geometry is loaded once, so that a recorded command buffer has content
LoadOnce == PoolSets(dev) = {} /\ LoadModel

NextRetry ==
    \/ WindowResize \/ GpuComplete \/ BeginFrameRetry \/ EndFrameSteady
    \/ CreateOnlyRenderable \/ LoadOnce

SpecRetry == InitFailing /\ [][NextRetry]_vars

\* a begin_frame call that did not fault
BeginFrameCall ==
    /\ phase = "Idle"
    /\ last'.op = "begin_frame"
    /\ last' # last \/ ctx' # ctx
    /\ fault' = "none"

NothingRecorded ==
    /\ phase' = "Idle"
    /\ dev'.command_buffers = dev.command_buffers
    /\ ctx'.current_image_index = ctx.current_image_index

\* C30: a begin_frame whose first acquisition reports VK_ERROR_OUT_OF_DATE_KHR
\* recreates the swapchain once and acquires at most once more, with the
\* same semaphore; it returns success only if that second acquisition
\* reports VK_SUCCESS or VK_SUBOPTIMAL_KHR, and otherwise (the recreation
\* failed, or the second result is anything else) returns an error and
\* leaves every command buffer as it was
C30_StaleAcquireRetriedOnce ==
    [][(BeginFrameCall /\ last'.frame.results # <<>>
            /\ last'.frame.results[1] = VK_ERROR_OUT_OF_DATE_KHR) =>
          With(last'.frame, LAMBDA obs :
              /\ Len(obs.results) <= 2
              /\ obs.recreated = (IF ResizePending THEN 2 ELSE 1)
              /\ obs.semaphores = [i \in DOMAIN obs.results |-> obs.semaphores[1]]
              /\ last'.result = POC_RESULT_SUCCESS <=>
                     /\ Len(obs.results) = 2
                     /\ obs.results[2] \in {VK_SUCCESS, VK_SUBOPTIMAL_KHR}
              /\ last'.result # POC_RESULT_SUCCESS => NothingRecorded
              /\ last'.result = POC_RESULT_SUCCESS =>
                     /\ phase' = "Recorded"
                     /\ ctx'.current_image_index = obs.image)]_vars

\* The retry reported a lost surface: begin_frame returned an error and the
\* command buffer that holds the draw of the previous frame is untouched
C30_Witness ==
    /\ last.op = "begin_frame"
    /\ last.result = POC_RESULT_ERROR_INIT_FAILED
    /\ last.frame.results = <<VK_ERROR_OUT_OF_DATE_KHR, VK_ERROR_SURFACE_LOST_KHR>>
    /\ fault = "none"
    /\ \E i \in DOMAIN dev.command_buffers : dev.command_buffers[i] # {}

(***************************************************************************)
(* A stale or suboptimal present                                           *)
(***************************************************************************)
StalePresent ==
    /\ EndFrameStep
    /\ fault' = "none"
    /\ last'.frame.results[1] \in {VK_ERROR_OUT_OF_DATE_KHR, VK_SUBOPTIMAL_KHR}

ResizeRecreations(obs) ==
    obs.recreated - (IF obs.results # <<>> /\ obs.results[1] = VK_ERROR_OUT_OF_DATE_KHR
                     THEN 1 ELSE 0)

\* C32: begin_frame remembers the polled size and flags a recreation when it
\* differs from the last one it saw; its size check recreates exactly when a
\* recreation is flagged and the polled size differs from the swapchain
\* extent, so a polled size equal to the extent never recreates; the flag is
\* cleared by a successful recreation of the size check and by nothing else
C32_ResizeDebounced ==
    [][/\ BeginFrameCall =>
              With(ResizeRecreations(last'.frame), LAMBDA n :
                  /\ ctx'.last_known = window_size
                  /\ n = (IF /\ ctx.needs_swapchain_recreation \/ window_size # ctx.last_known
                             /\ window_size # ctx.swapchain_extent
                          THEN 1 ELSE 0)
                  /\ window_size = ctx.swapchain_extent => n = 0
                  /\ n = 0 => ctx'.needs_swapchain_recreation =
                                  (ctx.needs_swapchain_recreation
                                       \/ window_size # ctx.last_known)
                  /\ n = 1 => ctx'.needs_swapchain_recreation = (last'.frame.results = <<>>))
       /\ (fault' = "none" /\ ctx.needs_swapchain_recreation
               /\ ~ctx'.needs_swapchain_recreation) =>
              /\ phase = "Idle"
              /\ last'.op = "begin_frame"
              /\ ResizeRecreations(last'.frame) = 1
              /\ last'.frame.results # <<>>]_vars

\* A begin_frame saw a new size that is the extent the swapchain already
\* has: the recreation stays flagged and none was run
C32_Witness ==
    /\ last.op = "begin_frame"
    /\ last.result = POC_RESULT_SUCCESS
    /\ last.size_changed
    /\ last.frame.recreated = 0
    /\ ctx.needs_swapchain_recreation
    /\ ctx.last_known = ctx.swapchain_extent
    /\ fault = "none"

(***************************************************************************)
(* recreate_swapchain, statement by statement                              *)
(***************************************************************************)
\* The locals of a running recreate_swapchain call, kept in last.arg:
\*   c0, d0     the context and the device when the call began
\*   fp         where this recreation fails
\*   old        old_swapchain, once line 1214 has read it
\*   requested  vkCreateSwapchainKHR has been called
\*   result     what create_swapchain_internal returned
RcLocals(c0, d0, fp, old, requested, result) ==
    [c0 |-> c0, d0 |-> d0, fp |-> fp, old |-> old, requested |-> requested,
     result |-> result]

RcAt(pc) == fault = "none" /\ phase = pc /\ last.op = "recreate_swapchain"

RcGoto(pc) == phase' = pc /\ UNCHANGED <<engine, robj, surface, window_size>>

\* return result;
RcReturn(result) ==
    /\ phase' = "Idle"
    /\ last' = [last EXCEPT !.result = result]
    /\ UNCHANGED <<engine, robj, surface, window_size>>

\* line 1202: the call begins with vkDeviceWaitIdle
RcWaitIdle ==
    /\ fault = "none"
    /\ phase = "Idle"
    /\ \E fp \in FailPoints(swap_image_count(surface)) :
           last' = Last("recreate_swapchain", 0,
                        RcLocals(ctx, dev, fp, VK_NULL_HANDLE, FALSE, POC_RESULT_SUCCESS),
                        0, "running", FALSE, surface, NoFrameObs)
    /\ dev' = vkDeviceWaitIdle(dev)
    /\ RcGoto("cleanup_swapchain_images")
    /\ UNCHANGED <<ctx, fault>>

\* line 1205
RcCleanupImages ==
    /\ RcAt("cleanup_swapchain_images")
    /\ \E s \in {cleanup_swapchain_images(ctx)} : ctx' = s.c /\ fault' = s.f
    /\ RcGoto("cleanup_pipeline_dependent_resources")
    /\ UNCHANGED <<dev, last>>

\* line 1208
RcCleanupFramebuffers ==
    /\ RcAt("cleanup_pipeline_dependent_resources")
    /\ \E s \in {cleanup_pipeline_dependent_resources(ctx)} : ctx' = s.c /\ fault' = s.f
    /\ RcGoto("cleanup_depth_resources")
    /\ UNCHANGED <<dev, last>>

\* The depth buffer is released and the old swapchain destroyed with it,
\* before the new one has been requested
RcCleanupDepth_destroying ==
    /\ RcAt("cleanup_depth_resources")
    /\ ctx' = cleanup_depth_resources(ctx)
    /\ dev' = [dev EXCEPT !.live_swapchains = @ \ {ctx.swapchain}]
    /\ RcGoto("create_swapchain_internal")
    /\ UNCHANGED <<last, fault>>

\* line 1211
RcCleanupDepth ==
    /\ RcAt("cleanup_depth_resources")
    /\ ctx' = cleanup_depth_resources(ctx)
    /\ RcGoto("create_swapchain_internal")
    /\ UNCHANGED <<dev, last, fault>>

\* lines 1214-1217: old_swapchain is read and handed to vkCreateSwapchainKHR
\* as oldSwapchain
RcCreateSwapchain ==
    /\ RcAt("create_swapchain_internal")
    /\ \E s \in {create_swapchain_internal(ctx, dev, surface, window_size, last.arg.fp)} :
           /\ ctx' = s.c
           /\ dev' = s.d
           /\ last' = [last EXCEPT !.arg.old = ctx.swapchain, !.arg.requested = TRUE,
                                   !.arg.result = s.r]
    /\ fault' = IF ctx.swapchain # VK_NULL_HANDLE /\ ctx.swapchain \notin dev.live_swapchains
                THEN "destroyed_handle" ELSE "none"
    /\ RcGoto("vkDestroySwapchainKHR")

\* lines 1220-1226: the old handle is destroyed, then the result is tested
RcDestroyOld ==
    /\ RcAt("vkDestroySwapchainKHR")
    /\ dev' = IF last.arg.old # VK_NULL_HANDLE
              THEN [dev EXCEPT !.live_swapchains = @ \ {last.arg.old}]
              ELSE dev
    /\ IF last.arg.result # POC_RESULT_SUCCESS
       THEN RcReturn(last.arg.result)
       ELSE RcGoto("create_depth_resources") /\ UNCHANGED last
    /\ UNCHANGED <<ctx, fault>>

\* lines 1229-1232
RcCreateDepth ==
    /\ RcAt("create_depth_resources")
    /\ \E s \in {create_depth_resources(ctx, last.arg.fp)} :
           /\ ctx' = s.c
           /\ IF s.r # POC_RESULT_SUCCESS
              THEN RcReturn(s.r)
              ELSE RcGoto("create_framebuffers") /\ UNCHANGED last
    /\ UNCHANGED <<dev, fault>>

\* lines 1235-1237
RcCreateFramebuffers ==
    /\ RcAt("create_framebuffers")
    /\ \E s \in {create_framebuffers(ctx, last.arg.fp)} :
           /\ ctx' = s.c
           /\ RcReturn(s.r)
    /\ UNCHANGED <<dev, fault>>

BetweenCalls == phase \in {"Idle", "Recorded"}

\* Frames, resizes, and recreations that run one statement at a time
NextRecreate ==
    \/ BetweenCalls /\ WindowResize
    \/ BetweenCalls /\ GpuComplete
    \/ BeginFrameInOrder \/ EndFrameSteady
    \/ RcWaitIdle \/ RcCleanupImages \/ RcCleanupFramebuffers \/ RcCleanupDepth
    \/ RcCreateSwapchain \/ RcDestroyOld \/ RcCreateDepth \/ RcCreateFramebuffers

SpecRecreate == InitFailing /\ [][NextRecreate]_vars

Recreating == last.op = "recreate_swapchain" /\ ~BetweenCalls

\* C33: within a recreate_swapchain call the new swapchain is requested with
\* the device idle and the old image views, framebuffers and depth buffer
\* released, the old handle being passed on and the call having destroyed no
\* swapchain so far; the old
\* handle is destroyed only once the new swapchain has been requested; the
\* depth buffer is created after that and the framebuffers only when the
\* depth buffer exists; and the call ends in the state and with the result
\* recreate_swapchain gives as a whole
C33_RecreationOrder ==
    [][Recreating =>
             /\ (~last.arg.requested /\ last'.arg.requested) =>
                    /\ dev.queue = <<>>
                    /\ ctx.swapchain_image_views = <<>>
                    /\ ctx.framebuffers = <<>>
                    /\ ctx.depth = NoDepth
                    /\ ctx.swapchain = last.arg.c0.swapchain
                    /\ dev.live_swapchains = last.arg.d0.live_swapchains
                    /\ last'.arg.old = ctx.swapchain
             /\ (dev'.live_swapchains # dev.live_swapchains /\ last.arg.requested) =>
                    /\ dev'.live_swapchains = dev.live_swapchains \ {last.arg.old}
                    /\ ctx'.depth = NoDepth
             /\ ~last'.arg.requested =>
                    dev'.live_swapchains = dev.live_swapchains
             /\ ctx'.depth # ctx.depth /\ ctx'.depth # NoDepth =>
                    /\ last.arg.requested
                    /\ last.arg.old \notin dev.live_swapchains
                    /\ ctx.framebuffers = <<>>
             /\ ctx'.framebuffers # <<>> =>
                    /\ ctx'.depth # NoDepth
                    /\ ctx.depth = ctx'.depth
             /\ (phase' = "Idle" /\ fault' = "none") =>
                    With(recreate_swapchain(last.arg.c0, last.arg.d0, surface,
                                            window_size, last.arg.fp), LAMBDA s :
                        /\ ctx' = s.c
                        /\ dev' = s.d
                        /\ last'.result = s.r
                        /\ s.f = "none")]_vars

\* A recreation has created the new swapchain and the old one is still alive
C33_Witness ==
    /\ RcAt("vkDestroySwapchainKHR")
    /\ last.arg.requested
    /\ last.arg.result = POC_RESULT_SUCCESS
    /\ last.arg.old \in dev.live_swapchains
    /\ ctx.swapchain # last.arg.old
    /\ ctx.swapchain \in dev.live_swapchains

(***************************************************************************)
(* Growth of the renderable array                                          *)
(***************************************************************************)
\* One renderable more than the initial array holds
MaxCreated == INITIAL_RENDERABLE_CAPACITY + 1

\* A context just created, and room for MaxCreated renderables
InitGrow ==
    \E s \in {vulkan_context_create(SurfaceCaps(UndefinedExtent, 1), InitialSize)} :
        /\ ctx = s.c
        /\ dev = s.d
        /\ robj = [r \in 1 .. MaxCreated |-> FreedRenderable]
        /\ surface = SurfaceCaps(UndefinedExtent, 1)
        /\ window_size = InitialSize
        /\ phase = "Idle"
        /\ last = RenderableCall("create_context", 0, 0, 0, "created")
        /\ fault = "none"
        /\ engine = RunningEngine

\* destroy_renderable of the newest renderable, of any renderable of an
\* array of at most MaxArrayLen, or of null
DestroyEndRenderable ==
    /\ fault = "none"
    /\ \E rid \in {0} \cup {ctx.renderables[i] : i \in
                          IF Len(ctx.renderables) <= MaxArrayLen
                          THEN DOMAIN ctx.renderables ELSE {Len(ctx.renderables)}} :
           \E s \in {poc_context_destroy_renderable(ctx, robj, dev, rid)} :
               /\ ctx' = s.c
               /\ robj' = s.ro
               /\ dev' = s.d
               /\ fault' = s.f
               /\ last' = RenderableCall("destroy_renderable", rid,
                                         Position(ctx.renderables, rid), 0,
                                         IF s.found THEN "destroyed" ELSE "not_found")
    /\ UNCHANGED <<engine, surface, window_size, phase>>

SpecGrow == InitGrow /\ [][CreateRenderable \/ DestroyEndRenderable]_vars

CreateRenderableCall == last'.op = "create_renderable" /\ (last' # last \/ ctx' # ctx)

\* count <= capacity, and the entries are non-null, distinct allocated
\* renderables
RenderableArrayValid ==
    /\ ctx.renderable_count <= ctx.renderable_capacity
    /\ Len(ctx.renderables) = ctx.renderable_count
    /\ \A i \in DOMAIN ctx.renderables :
           /\ ctx.renderables[i] # 0
           /\ robj[ctx.renderables[i]].allocated
           /\ \A j \in DOMAIN ctx.renderables : i # j => ctx.renderables[i] # ctx.renderables[j]

\* capacity never shrinks and changes only by doubling, in a
\* create_renderable that found count equal to capacity
CapacityOnlyDoubles ==
    /\ ctx'.renderable_capacity >= ctx.renderable_capacity
    /\ ctx'.renderable_capacity # ctx.renderable_capacity =>
           /\ CreateRenderableCall
           /\ ctx.renderable_count = ctx.renderable_capacity
           /\ ctx'.renderable_capacity = 2 * ctx.renderable_capacity

\* a failed create_renderable leaves count and the entries as they were
FailedCreateKeepsArray ==
    (CreateRenderableCall /\ last'.result = "NULL") =>
        /\ ctx'.renderable_count = ctx.renderable_count
        /\ ctx'.renderables = ctx.renderables

\* C34: count <= capacity and the entries [0, count) are non-null
\* and pairwise distinct; capacity starts at 8, never shrinks, and changes only
\* by doubling, in a create_renderable that finds count equal to capacity:
\* always when that call succeeds, not when its reallocation fails; a failed
\* create_renderable leaves count and the existing entries unchanged
C34_RenderableArrayBounded ==
    /\ ctx.renderable_capacity = INITIAL_RENDERABLE_CAPACITY
    /\ []RenderableArrayValid
    /\ [][/\ CapacityOnlyDoubles
          /\ FailedCreateKeepsArray
          /\ (CreateRenderableCall /\ last'.result = "created"
                  /\ ctx.renderable_count = ctx.renderable_capacity) =>
                 ctx'.renderable_capacity = 2 * ctx.renderable_capacity]_vars

\* The ninth renderable was created and the array doubled for it
C34_Witness ==
    /\ last.op = "create_renderable"
    /\ last.result = "created"
    /\ ctx.renderable_count = INITIAL_RENDERABLE_CAPACITY + 1
    /\ ctx.renderable_capacity = 2 * INITIAL_RENDERABLE_CAPACITY

\* C34: ... and capacity doubles in every create_renderable that finds count
\* equal to capacity, whether or not the call succeeds
C34_DoublesWheneverFull ==
    /\ ctx.renderable_capacity = INITIAL_RENDERABLE_CAPACITY
    /\ []RenderableArrayValid
    /\ [][/\ CapacityOnlyDoubles
          /\ FailedCreateKeepsArray
          /\ (last'.op = "create_renderable" /\ last' # last
                  /\ ctx.renderable_count = ctx.renderable_capacity) =>
                 ctx'.renderable_capacity = 2 * ctx.renderable_capacity]_vars

(***************************************************************************)
(* Staged uploads                                                          *)
(***************************************************************************)
StagingObjects(d) == {o \in Live(d) : o[1] \in {"staging_buffer", "staging_memory"}}

\* C35: when a load has returned, no staging buffer (or staging memory)
\* remains allocated, and a load that ran its copies leaves nothing pending
\* on the graphics queue
C35_NoStagingAfterLoad ==
    last.op = "load_model" =>
        /\ StagingObjects(dev) = {}
        /\ last.result = POC_RESULT_SUCCESS => dev.queue = <<>>

(***************************************************************************)
(* Adapter selection                                                       *)
(***************************************************************************)
POC_RESULT_ERROR_DEVICE_NOT_FOUND == "POC_RESULT_ERROR_DEVICE_NOT_FOUND"

\* VkPhysicalDeviceType
DeviceTypes == {"DISCRETE_GPU", "INTEGRATED_GPU", "VIRTUAL_GPU", "CPU", "OTHER"}

\* What the driver reports of an adapter: its type, whether
\* find_queue_families finds a graphics and a present-capable family, and
\* whether VK_KHR_swapchain is among its extensions
Adapters ==
    [deviceType : DeviceTypes, graphics_family_found : BOOLEAN,
     present_family_found : BOOLEAN, has_swapchain : BOOLEAN]

MaxAdapters == 2

\* vkEnumeratePhysicalDevices: the adapters in the driver's order
AdapterLists == UNION {[1 .. n -> Adapters] : n \in 0 .. MaxAdapters}

\* A rating that does not look for the swapchain extension
rate_device_suitability_any_extensions(device) ==
    IF ~device.graphics_family_found \/ ~device.present_family_found THEN 0
    ELSE CASE device.deviceType = "DISCRETE_GPU" -> 1000
           [] device.deviceType = "INTEGRATED_GPU" -> 100
           [] device.deviceType = "VIRTUAL_GPU" -> 50
           [] device.deviceType = "CPU" -> 10
           [] OTHER -> 1

rate_device_suitability(device) ==
    IF ~device.graphics_family_found \/ ~device.present_family_found THEN 0
    ELSE IF ~device.has_swapchain THEN 0
    ELSE CASE device.deviceType = "DISCRETE_GPU" -> 1000
           [] device.deviceType = "INTEGRATED_GPU" -> 100
           [] device.deviceType = "VIRTUAL_GPU" -> 50
           [] device.deviceType = "CPU" -> 10
           [] OTHER -> 1

\* The locals of select_physical_device: devices, the loop index i (from 0),
\* best_device (the position of the adapter in devices, from 1;
\* VK_NULL_HANDLE while none is chosen) and best_score
SelectLocals(devices, i, best_device, best_score, result) ==
    [op |-> "select_physical_device", devices |-> devices, i |-> i,
     best_device |-> best_device, best_score |-> best_score, result |-> result]

\* select_physical_device is entered, by a create_context that has no
\* device yet
InitSelect ==
    \E devices \in AdapterLists :
        /\ ctx = ZeroContext(InitialSize)
        /\ dev = NoDevice
        /\ robj = [r \in RenderableIds |-> FreedRenderable]
        /\ surface = SurfaceCaps(UndefinedExtent, 1)
        /\ window_size = InitialSize
        /\ phase = "select_physical_device"
        /\ last = SelectLocals(devices, 0, VK_NULL_HANDLE, 0, "running")
        /\ fault = "none"
        /\ engine = RunningEngine

Selecting == phase = "select_physical_device" /\ last.result = "running"

\* lines 621-624: no adapter at all
SelectNoDevices ==
    /\ Selecting
    /\ Len(last.devices) = 0
    /\ last' = [last EXCEPT !.result = POC_RESULT_ERROR_DEVICE_NOT_FOUND]
    /\ UNCHANGED <<engine, ctx, robj, dev, surface, window_size, phase, fault>>

\* lines 635-659: one round of the loop
SelectRateDevice ==
    /\ Selecting
    /\ last.i < Len(last.devices)
    /\ \E score \in {rate_device_suitability(last.devices[last.i + 1])} :
           last' = IF score > last.best_score
                   THEN [last EXCEPT !.i = @ + 1, !.best_device = last.i + 1,
                                     !.best_score = score]
                   ELSE [last EXCEPT !.i = @ + 1]
    /\ UNCHANGED <<engine, ctx, robj, dev, surface, window_size, phase, fault>>

\* lines 661-679: after the loop
SelectReturn ==
    /\ Selecting
    /\ Len(last.devices) > 0
    /\ last.i = Len(last.devices)
    /\ last' = [last EXCEPT !.result = IF last.best_device = VK_NULL_HANDLE
                                       THEN POC_RESULT_ERROR_DEVICE_NOT_FOUND
                                       ELSE POC_RESULT_SUCCESS]
    /\ UNCHANGED <<engine, ctx, robj, dev, surface, window_size, phase, fault>>

SpecSelect == InitSelect /\ [][SelectNoDevices \/ SelectRateDevice \/ SelectReturn]_vars

\* discrete > integrated > virtual > software (CPU) > other
TypeRank(deviceType) ==
    CASE deviceType = "DISCRETE_GPU" -> 5
      [] deviceType = "INTEGRATED_GPU" -> 4
      [] deviceType = "VIRTUAL_GPU" -> 3
      [] deviceType = "CPU" -> 2
      [] OTHER -> 1

Suitable(device) ==
    device.graphics_family_found /\ device.present_family_found /\ device.has_swapchain

\* C36: select_physical_device returns device-not-found exactly when no
\* enumerated adapter has a graphics family, a present-capable family and
\* swapchain support; otherwise it selects such an adapter, of a type ranked
\* at least as high as that of every other such adapter (discrete >
\* integrated > virtual > CPU > other), and the first enumerated among those
\* of that type
C36_BestAdapterSelected ==
    (phase = "select_physical_device" /\ last.result # "running") =>
        LET suitable == {j \in DOMAIN last.devices : Suitable(last.devices[j])}
        IN  /\ last.result = POC_RESULT_ERROR_DEVICE_NOT_FOUND <=> suitable = {}
            /\ last.result = POC_RESULT_SUCCESS =>
                   /\ last.best_device \in suitable
                   /\ \A j \in suitable :
                          /\ TypeRank(last.devices[j].deviceType)
                                 <= TypeRank(last.devices[last.best_device].deviceType)
                          /\ j < last.best_device =>
                                 TypeRank(last.devices[j].deviceType)
                                     < TypeRank(last.devices[last.best_device].deviceType)

\* An integrated adapter was chosen over a discrete one that lacks a
\* requirement
C36_Witness ==
    /\ phase = "select_physical_device"
    /\ last.result = POC_RESULT_SUCCESS
    /\ Len(last.devices) = 2
    /\ last.devices[1].deviceType = "DISCRETE_GPU"
    /\ ~Suitable(last.devices[1])
    /\ last.devices[2].deviceType = "INTEGRATED_GPU"
    /\ last.best_device = 2

(***************************************************************************)
(* The image count asked of a surface                                      *)
(***************************************************************************)
MaxSupportedImages == 8

\* VkSurfaceCapabilitiesKHR: minImageCount is at least 1; maxImageCount is 0
\* (no limit) or at least minImageCount
ImageCountLimits ==
    {lim \in (1 .. MaxSupportedImages) \X (0 .. MaxSupportedImages) :
        lim[2] = 0 \/ lim[2] >= lim[1]}

SurfaceCounts(lim) ==
    [SurfaceCaps(UndefinedExtent, lim[1]) EXCEPT !.maxImageCount = lim[2]]

\* create_context has a surface and is about to create the swapchain
InitCount ==
    \E lim \in ImageCountLimits :
        /\ ctx = ZeroContext(InitialSize)
        /\ dev = NoDevice
        /\ robj = [r \in RenderableIds |-> FreedRenderable]
        /\ surface = SurfaceCounts(lim)
        /\ window_size = InitialSize
        /\ phase = "create_swapchain_internal"
        /\ last = Last("create_context", 0, 0, 0, "running", FALSE, surface, NoFrameObs)
        /\ fault = "none"
        /\ engine = RunningEngine

\* create_swapchain_internal, vkCreateSwapchainKHR succeeding or not
CreateSwapchain ==
    /\ phase = "create_swapchain_internal"
    /\ \E fp \in {NoFail, <<"swapchain", 0, 0>>} :
       \E s \in {create_swapchain_internal(ctx, dev, surface, window_size, fp)} :
           /\ ctx' = s.c
           /\ dev' = s.d
           /\ last' = Last("create_swapchain_internal", 0, 0, 0, s.r, FALSE, surface, NoFrameObs)
    /\ phase' = "Idle"
    /\ UNCHANGED <<engine, robj, surface, window_size, fault>>

SpecCount == InitCount /\ [][CreateSwapchain]_vars

\* C37: a swapchain is created with minImageCount + 1 images, or with
\* maxImageCount when maxImageCount > 0 and minImageCount + 1 exceeds it; a
\* maxImageCount of 0 never reduces the count; the count is at least
\* minImageCount
C37_ImageCountWithinLimits ==
    (phase = "Idle" /\ last.op = "create_swapchain_internal"
         /\ last.result = POC_RESULT_SUCCESS) =>
        LET min_supported == surface.minImageCount
            max_supported == surface.maxImageCount
            requested == ctx.swapchain_image_count
        IN  /\ requested = IF max_supported > 0 /\ min_supported + 1 > max_supported
                           THEN max_supported ELSE min_supported + 1
            /\ max_supported = 0 => requested = min_supported + 1
            /\ requested >= min_supported
            /\ dev.image_count = requested

\* The count was reduced to the surface's maximum
C37_Witness ==
    /\ phase = "Idle"
    /\ last.op = "create_swapchain_internal"
    /\ last.result = POC_RESULT_SUCCESS
    /\ surface.maxImageCount > 0
    /\ surface.minImageCount = surface.maxImageCount
    /\ ctx.swapchain_image_count = surface.maxImageCount
====
